---- MODULE Spec2Model ----
(***************************************************************************)
(* Shared Data Layer (SDL) client of ricsdl: the storage facade            *)
(* (syncstorage.py), the in-memory backend (backend/fake_dict_db.py) and   *)
(* the Redis backend (backend/redis.py).                                   *)
(*                                                                         *)
(* Python str values are sequences of one-character strings, bytes values  *)
(* are opaque model values, a dict is a function whose DOMAIN is the set   *)
(* of its keys.                                                            *)
(***************************************************************************)
EXTENDS Integers, Sequences, FiniteSets, TLC

VARIABLES
    db_type,            \* _Configuration.Params.db_type: "FAKE_DICT" or "REDIS"
    clients,            \* RedisBackend.clients: one _RedisConn per endpoint
    next_client_event,  \* RedisBackend.next_client_event
    db,                 \* FakeDictBackend._db
    queue,              \* FakeDictBackend._queue
    channel_cbs,        \* FakeDictBackend._channel_cbs
    listen_thread,      \* FakeDictBackend._listen_thread: "initial", "alive"
    run_in_thread,      \* FakeDictBackend._run_in_thread
    server,             \* per endpoint, the Redis server: keyspace and channels
    result,             \* the call that returned or raised last
    returned,           \* the value that call returned (None if it raised)
    pending,            \* the messages a write-and-publish call has yet to put
    delivered,          \* the callback invocations so far, oldest first
    started,            \* start_event_listener() has been called
    polled,             \* handle_events() has been called and did not raise
    in_callback,        \* the callback invocations that have not returned
    thread_call,        \* per worker thread: the backend call it is inside
    with_block,         \* per lock handle: its position in a with statement
    lock_handle,        \* per lock handle: the backend lock object
    lock_key,           \* Redis server: the lock key, its token and time to live
    next_token,         \* the tokens redis.lock.Lock has drawn so far
    lock_result,        \* per lock handle: the call that returned or raised last
    lock_returned       \* per lock handle: the value that call returned

lockvars == <<lock_handle, lock_key, next_token, lock_result, lock_returned>>

\* the positions of the worker threads and of the with statements
stepvars == <<thread_call, with_block>>

vars == <<db_type, clients, next_client_event, db, queue, channel_cbs,
          listen_thread, run_in_thread, server, result, returned, pending,
          delivered, started, polled, in_callback, stepvars, lockvars>>

(***************************************************************************)
(* Input domains.                                                          *)
(***************************************************************************)
MaxClients == 2
MaxEvents == 2
MaxExpiration == 2
MaxRetries == 1
MaxTokens == 3
MaxAddrs == 3
MaxPorts == 2

NS == {<<"a">>, <<"d">>}
Keys == {<<"k">>, <<"j">>}
Values == {"v1", "v2"}
Channels == {<<"c">>, <<"h">>}

None == "None"

\* channels_and_events arguments: dicts in insertion order, an event being
\* one str or a list of str
ChannelsAndEventsInputs ==
    { << << <<"c">>, [str |-> <<"e">>] >> >>,
      << << <<"c">>, [list |-> << <<"e">>, <<"f">> >>] >>,
         << <<"h">>, [str |-> <<"g">>] >> >> }

(***************************************************************************)
(* dict helpers                                                            *)
(***************************************************************************)
EmptyDict == <<>>

DictUpdate(d, m) ==
    [k \in DOMAIN d \cup DOMAIN m |-> IF k \in DOMAIN m THEN m[k] ELSE d[k]]

DictPop(d, ks) == [k \in DOMAIN d \ ks |-> d[k]]

(***************************************************************************)
(* Character codes of the characters that occur in namespaces, keys and    *)
(* patterns.                                                               *)
(***************************************************************************)
Ord(ch) == CASE ch = "a" -> 97 [] ch = "d" -> 100 [] ch = "," -> 44
             [] ch = "{" -> 123 [] ch = "}" -> 125 [] ch = "j" -> 106
             [] ch = "k" -> 107 [] OTHER -> 63

\* c is one of the characters a bracket body lists: single characters and
\* ranges x-y
RECURSIVE InClass(_, _)
InClass(stuff, c) ==
    IF stuff = <<>> THEN FALSE
    ELSE IF Len(stuff) >= 3 /\ stuff[2] = "-"
         THEN \/ Ord(stuff[1]) <= Ord(c) /\ Ord(c) <= Ord(stuff[3])
              \/ InClass(SubSeq(stuff, 4, Len(stuff)), c)
    ELSE stuff[1] = c \/ InClass(Tail(stuff), c)

\* the first index from j on where pat holds ch, Len(pat) + 1 if none
RECURSIVE IndexFrom(_, _, _)
IndexFrom(pat, ch, j) ==
    IF j > Len(pat) \/ pat[j] = ch THEN j ELSE IndexFrom(pat, ch, j + 1)

\* fnmatch.translate: the index of the ']' that closes the bracket opened
\* just before pat, Len(pat) + 1 if the bracket is not closed
fnmatch_bracket_end(pat) ==
    LET j1 == IF pat # <<>> /\ pat[1] = "!" THEN 2 ELSE 1
        j2 == IF j1 <= Len(pat) /\ pat[j1] = "]" THEN j1 + 1 ELSE j1
    IN  IndexFrom(pat, "]", j2)

\* fnmatch.translate: what the bracket body stuff matches; a leading '!'
\* negates, a leading '^' is a listed character
fnmatch_bracket(stuff, c) ==
    IF stuff = <<"!">> THEN TRUE
    ELSE IF stuff[1] = "!" THEN ~InClass(Tail(stuff), c)
    ELSE InClass(stuff, c)

(***************************************************************************)
(* fnmatch.fnmatch(name, pat) where os.path.normcase changes nothing: '*'  *)
(* matches any run of characters, '?' one character, '[seq]' one of the    *)
(* characters of seq, '[!seq]' one character not in seq, and any other     *)
(* character, the backslash included, itself.                              *)
(***************************************************************************)
RECURSIVE fnmatch(_, _)
fnmatch(name, pat) ==
    IF pat = <<>> THEN name = <<>>
    ELSE IF Head(pat) = "*"
         THEN \/ fnmatch(name, Tail(pat))
              \/ name # <<>> /\ fnmatch(Tail(name), pat)
    ELSE IF name = <<>> THEN FALSE
    ELSE IF Head(pat) = "?" THEN fnmatch(Tail(name), Tail(pat))
    ELSE IF Head(pat) = "[" /\ fnmatch_bracket_end(Tail(pat)) <= Len(pat) - 1
         THEN LET j == fnmatch_bracket_end(Tail(pat))
              IN  /\ fnmatch_bracket(SubSeq(Tail(pat), 1, j - 1), Head(name))
                  /\ fnmatch(Tail(name), SubSeq(Tail(pat), j + 1, Len(pat) - 1))
    ELSE Head(pat) = Head(name) /\ fnmatch(Tail(name), Tail(pat))

(***************************************************************************)
(* What a backend operation leaves behind: the new FakeDictBackend._db,    *)
(* the new Redis servers and connections, the (channel, events) messages   *)
(* the operation still has to put on FakeDictBackend._queue, and the value *)
(* returned.  Same is the result of an operation that changes nothing.     *)
(***************************************************************************)
Same == [db |-> db, server |-> server, clients |-> clients,
         msgs |-> <<>>, ret |-> None]

(***************************************************************************)
(* FakeDictBackend: key operations.  The ns argument is accepted and not   *)
(* used.                                                                   *)
(***************************************************************************)
\* faulty variant: the keys that are not in data_map are dropped
FakeSetReplace(ns, data_map) ==
    [Same EXCEPT !.db = data_map]

FakeSet(ns, data_map) ==
    [Same EXCEPT !.db = DictUpdate(db, data_map)]

\* faulty variant: reports the outcome of the comparison, stores nothing
FakeSetIfNoStore(ns, key, old_data, new_data) ==
    IF key \notin DOMAIN db THEN [Same EXCEPT !.ret = FALSE]
    ELSE [Same EXCEPT !.ret = (db[key] = old_data)]

\* faulty variant: stores new_data whenever the key exists
FakeSetIfNoCompare(ns, key, old_data, new_data) ==
    IF key \notin DOMAIN db THEN [Same EXCEPT !.ret = FALSE]
    ELSE [Same EXCEPT !.db = DictUpdate(db, key :> new_data), !.ret = TRUE]

FakeSetIf(ns, key, old_data, new_data) ==
    IF key \notin DOMAIN db THEN [Same EXCEPT !.ret = FALSE]
    ELSE IF db[key] = old_data
         THEN [Same EXCEPT !.db = DictUpdate(db, key :> new_data), !.ret = TRUE]
         ELSE [Same EXCEPT !.ret = FALSE]

\* faulty variant: stores data also over an existing key
FakeSetIfNotExistsOverwrite(ns, key, data) ==
    [Same EXCEPT !.db = DictUpdate(db, key :> data),
                 !.ret = key \notin DOMAIN db]

FakeSetIfNotExists(ns, key, data) ==
    IF key \notin DOMAIN db
    THEN [Same EXCEPT !.db = DictUpdate(db, key :> data), !.ret = TRUE]
    ELSE [Same EXCEPT !.ret = FALSE]

FakeGet(ns, keys) ==
    [k \in {k \in keys : k \in DOMAIN db} |-> db[k]]

FakeFindKeys(ns, key_pattern) ==
    {k \in DOMAIN db : fnmatch(k, key_pattern)}

FakeFindAndGet(ns, key_pattern) ==
    [key \in {k \in DOMAIN db : fnmatch(k, key_pattern)} |-> db[key]]

FakeRemove(ns, keys) ==
    [Same EXCEPT !.db = DictPop(db, keys)]

FakeRemoveIf(ns, key, data) ==
    IF key \in DOMAIN db /\ db[key] = data
    THEN [Same EXCEPT !.db = DictPop(db, {key}), !.ret = TRUE]
    ELSE [Same EXCEPT !.ret = FALSE]

(***************************************************************************)
(* FakeDictBackend: group operations.  A group is a set kept in _db under  *)
(* the name of the group.                                                  *)
(***************************************************************************)
\* faulty variant: the members given replace the members of the group
FakeAddMemberReplace(ns, group, members) ==
    [Same EXCEPT !.db = DictUpdate(db, group :> members)]

FakeAddMember(ns, group, members) ==
    IF group \in DOMAIN db
    THEN [Same EXCEPT !.db = DictUpdate(db, group :> (db[group] \cup members))]
    ELSE [Same EXCEPT !.db = DictUpdate(db, group :> members)]

FakeRemoveMember(ns, group, members) ==
    IF group \notin DOMAIN db THEN Same
    ELSE [Same EXCEPT !.db = DictUpdate(db, group :> (db[group] \ members))]

FakeRemoveGroup(ns, group) ==
    [Same EXCEPT !.db = DictPop(db, {group})]

FakeGetMembers(ns, group) ==
    IF group \in DOMAIN db THEN db[group] ELSE {}

FakeIsMember(ns, group, member) ==
    IF group \notin DOMAIN db THEN FALSE
    ELSE IF member \in db[group] THEN TRUE
    ELSE FALSE

FakeGroupSize(ns, group) ==
    IF group \notin DOMAIN db THEN 0 ELSE Cardinality(db[group])

(***************************************************************************)
(* zlib.crc32 over 32-bit words held as bit sequences, least significant   *)
(* bit first.                                                              *)
(***************************************************************************)
Bits(n, w) == [i \in 1..w |-> (n \div (2 ^ (i - 1))) % 2]

Xor(x, y) == [i \in DOMAIN x |-> (x[i] + y[i]) % 2]

\* 0xEDB88320
CrcPoly == <<0,0,0,0,0,1,0,0, 1,1,0,0,0,0,0,1, 0,0,0,1,1,1,0,1, 1,0,1,1,0,1,1,1>>

Ones32 == [i \in 1..32 |-> 1]

ShiftRight(x) == [i \in 1..32 |-> IF i < 32 THEN x[i + 1] ELSE 0]

RECURSIVE CrcRounds(_, _)
CrcRounds(crc, n) ==
    IF n = 0 THEN crc
    ELSE CrcRounds(IF crc[1] = 1 THEN Xor(ShiftRight(crc), CrcPoly)
                   ELSE ShiftRight(crc), n - 1)

RECURSIVE CrcBytes(_, _)
CrcBytes(crc, str) ==
    IF str = <<>> THEN crc
    ELSE CrcBytes(CrcRounds(Xor(crc, [i \in 1..32 |->
                                       IF i <= 8 THEN Bits(Ord(Head(str)), 8)[i]
                                       ELSE 0]), 8),
                  Tail(str))

crc32(str) == Xor(CrcBytes(Ones32, str), Ones32)

\* the value of a 32-bit word modulo n
RECURSIVE ModBits(_, _, _)
ModBits(x, i, n) ==
    IF i = 0 THEN 0 ELSE (2 * ModBits(x, i - 1, n) + x[33 - i]) % n

get_hash(str) == crc32(str)

\* client_id = self.__get_hash(ns) % clients_cnt, as an index from 1
HashTable == [ns \in NS |-> [n \in 1..(MaxClients + 1) |->
                               ModBits(get_hash(ns), 32, n) + 1]]

getClientConn(ns) == HashTable[ns][Len(clients)]

\* faulty variant: the first endpoint whatever the namespace
getClientFirst(ns) == 1

getClient(ns) ==
    IF Len(clients) > 1 THEN HashTable[ns][Len(clients)] ELSE 1

(***************************************************************************)
(* RedisBackend: namespace prefix of keys and channels.                    *)
(***************************************************************************)
add_key_ns_prefix(ns, key) == <<"{">> \o ns \o <<"}", ",">> \o key

add_keys_ns_prefix(ns, keylist) == {add_key_ns_prefix(ns, k) : k \in keylist}

add_data_map_ns_prefix(ns, data_dict) ==
    [nk \in {add_key_ns_prefix(ns, k) : k \in DOMAIN data_dict} |->
        LET k == CHOOSE k \in DOMAIN data_dict : add_key_ns_prefix(ns, k) = nk
        IN  data_dict[k]]

\* str.split(',', 1): the text before and after the first comma
RECURSIVE SplitFirstComma(_)
SplitFirstComma(str) ==
    IF str = <<>> THEN << <<>> >>
    ELSE IF Head(str) = "," THEN << <<>>, Tail(str) >>
    ELSE LET r == SplitFirstComma(Tail(str))
         IN  [r EXCEPT ![1] = <<Head(str)>> \o r[1]]

\* the key without its prefix; "Rejected" stands for RejectedByBackend
strip_ns_from_bin_key(ns, nskey) ==
    LET parts == SplitFirstComma(nskey)
    IN  IF Len(parts) # 2 THEN "Rejected" ELSE parts[2]

strip_ns_from_bin_keys(ns, nskeylist) ==
    IF \E k \in nskeylist : strip_ns_from_bin_key(ns, k) = "Rejected"
    THEN "Rejected"
    ELSE {strip_ns_from_bin_key(ns, k) : k \in nskeylist}

(***************************************************************************)
(* The Redis server of one endpoint: the commands the backend sends, each  *)
(* evaluated by the server as one step.  ks is the keyspace; a reply of    *)
(* None is the nil reply.                                                  *)
(***************************************************************************)
\* stringmatchlen inside a bracket: whether c is listed in the bracket body
\* pattern starts with, and the pattern after the closing ']'; a backslash
\* makes the next character a listed one
RECURSIVE stringmatch_class(_, _)
stringmatch_class(pattern, c) ==
    IF pattern = <<>> THEN [match |-> FALSE, rest |-> <<>>]
    ELSE IF Len(pattern) >= 2 /\ pattern[1] = "\\"
         THEN LET r == stringmatch_class(SubSeq(pattern, 3, Len(pattern)), c)
              IN  [r EXCEPT !.match = pattern[2] = c \/ @]
    ELSE IF pattern[1] = "]" THEN [match |-> FALSE, rest |-> Tail(pattern)]
    ELSE IF Len(pattern) >= 3 /\ pattern[2] = "-"
         THEN LET r == stringmatch_class(SubSeq(pattern, 4, Len(pattern)), c)
                  lo == IF Ord(pattern[1]) <= Ord(pattern[3])
                        THEN Ord(pattern[1]) ELSE Ord(pattern[3])
                  hi == IF Ord(pattern[1]) <= Ord(pattern[3])
                        THEN Ord(pattern[3]) ELSE Ord(pattern[1])
              IN  [r EXCEPT !.match = (lo <= Ord(c) /\ Ord(c) <= hi) \/ @]
    ELSE LET r == stringmatch_class(Tail(pattern), c)
         IN  [r EXCEPT !.match = pattern[1] = c \/ @]

\* stringmatchlen of the server: '*', '?', '[...]' with '^' for negation,
\* and a backslash that makes the next character literal
RECURSIVE stringmatch(_, _)
stringmatch(pattern, string) ==
    IF pattern = <<>> THEN string = <<>>
    ELSE IF Head(pattern) = "*"
         THEN \/ stringmatch(Tail(pattern), string)
              \/ string # <<>> /\ stringmatch(pattern, Tail(string))
    ELSE IF string = <<>> THEN FALSE
    ELSE IF Head(pattern) = "?" THEN stringmatch(Tail(pattern), Tail(string))
    ELSE IF Head(pattern) = "["
         THEN LET not == Len(pattern) >= 2 /\ pattern[2] = "^"
                  body == SubSeq(pattern, IF not THEN 3 ELSE 2, Len(pattern))
                  r == stringmatch_class(body, Head(string))
              IN  /\ r.match # not
                  /\ stringmatch(r.rest, Tail(string))
    ELSE IF Head(pattern) = "\\" /\ Len(pattern) >= 2
         THEN /\ pattern[2] = Head(string)
              /\ stringmatch(SubSeq(pattern, 3, Len(pattern)), Tail(string))
    ELSE Head(pattern) = Head(string)
         /\ stringmatch(Tail(pattern), Tail(string))

MSET(ks, m) == [keys |-> DictUpdate(ks, m), reply |-> "OK"]

SETNX(ks, key, data) ==
    IF key \in DOMAIN ks THEN [keys |-> ks, reply |-> 0]
    ELSE [keys |-> DictUpdate(ks, key :> data), reply |-> 1]

MGET(ks, keys) == [k \in keys |-> IF k \in DOMAIN ks THEN ks[k] ELSE None]

KEYS(ks, pattern) == {k \in DOMAIN ks : stringmatch(pattern, k)}

DEL(ks, keys) ==
    [keys |-> DictPop(ks, keys), reply |-> Cardinality(keys \cap DOMAIN ks)]

SETIE(ks, key, new_data, old_data) ==
    IF key \in DOMAIN ks /\ ks[key] = old_data
    THEN [keys |-> DictUpdate(ks, key :> new_data), reply |-> "OK"]
    ELSE [keys |-> ks, reply |-> None]

DELIE(ks, key, data) ==
    IF key \in DOMAIN ks /\ ks[key] = data
    THEN [keys |-> DictPop(ks, {key}), reply |-> 1]
    ELSE [keys |-> ks, reply |-> 0]

\* the set commands; a set that becomes empty is deleted
SMEMBERS(ks, key) == IF key \in DOMAIN ks THEN ks[key] ELSE {}

SADD(ks, key, members) ==
    [keys |-> DictUpdate(ks, key :> (SMEMBERS(ks, key) \cup members)),
     reply |-> Cardinality(members \ SMEMBERS(ks, key))]

SREM(ks, key, members) ==
    [keys |-> IF SMEMBERS(ks, key) \ members = {} THEN DictPop(ks, {key})
              ELSE DictUpdate(ks, key :> (SMEMBERS(ks, key) \ members)),
     reply |-> Cardinality(members \cap SMEMBERS(ks, key))]

SISMEMBER(ks, key, member) == member \in SMEMBERS(ks, key)

SCARD(ks, key) == Cardinality(SMEMBERS(ks, key))

\* the channels the server has this connection subscribed to
ServerChannels(conn) == DOMAIN conn.channels \ conn.pending_unsubscribe

\* PUBLISH of each (channel, data) pair of a *MPUB command, in order
RECURSIVE PUBLISH(_, _)
PUBLISH(conn, pairs) ==
    IF Len(pairs) < 2 THEN conn
    ELSE PUBLISH(
           IF pairs[1] \in ServerChannels(conn)
           THEN [conn EXCEPT !.inbox = Append(@, [type |-> "message",
                                                  channel |-> pairs[1],
                                                  data |-> pairs[2]])]
           ELSE conn,
           SubSeq(pairs, 3, Len(pairs)))

(***************************************************************************)
(* RedisBackend: key operations.                                           *)
(***************************************************************************)
RedisReply(i, r, ret) ==
    [Same EXCEPT !.server = [server EXCEPT ![i] = r.keys], !.ret = ret]

RedisSet(ns, data_map) ==
    LET db_data_map == add_data_map_ns_prefix(ns, data_map)
        i == getClient(ns)
    IN  RedisReply(i, MSET(server[i], db_data_map), None)

\* response callback of SETIE: r and str_if_bytes(r) == 'OK' or False
RedisSetIf(ns, key, old_data, new_data) ==
    LET db_key == add_key_ns_prefix(ns, key)
        i == getClient(ns)
        r == SETIE(server[i], db_key, new_data, old_data)
    IN  RedisReply(i, r, r.reply = "OK")

RedisSetIfNotExists(ns, key, data) ==
    LET db_key == add_key_ns_prefix(ns, key)
        i == getClient(ns)
        r == SETNX(server[i], db_key, data)
    IN  RedisReply(i, r, r.reply = 1)

RedisGet(ns, keys) ==
    LET values == MGET(server[getClient(ns)], add_keys_ns_prefix(ns, keys))
    IN  [k \in {k \in keys : values[add_key_ns_prefix(ns, k)] # None} |->
            values[add_key_ns_prefix(ns, k)]]

RedisFindKeys(ns, key_pattern) ==
    LET db_key_pattern == add_key_ns_prefix(ns, key_pattern)
    IN  strip_ns_from_bin_keys(ns, KEYS(server[getClient(ns)], db_key_pattern))

RedisFindAndGet(ns, key_pattern) ==
    LET matched_keys == RedisFindKeys(ns, key_pattern)
    IN  IF matched_keys # {} THEN RedisGet(ns, matched_keys) ELSE EmptyDict

RedisAddMember(ns, group, members) ==
    LET db_key == add_key_ns_prefix(ns, group)
        i == getClient(ns)
    IN  RedisReply(i, SADD(server[i], db_key, members), None)

RedisRemoveMember(ns, group, members) ==
    LET db_key == add_key_ns_prefix(ns, group)
        i == getClient(ns)
    IN  RedisReply(i, SREM(server[i], db_key, members), None)

RedisRemoveGroup(ns, group) ==
    LET db_key == add_key_ns_prefix(ns, group)
        i == getClient(ns)
    IN  RedisReply(i, DEL(server[i], {db_key}), None)

RedisGetMembers(ns, group) ==
    SMEMBERS(server[getClient(ns)], add_key_ns_prefix(ns, group))

RedisIsMember(ns, group, member) ==
    SISMEMBER(server[getClient(ns)], add_key_ns_prefix(ns, group), member)

RedisGroupSize(ns, group) ==
    SCARD(server[getClient(ns)], add_key_ns_prefix(ns, group))

RedisRemove(ns, keys) ==
    LET db_keys == add_keys_ns_prefix(ns, keys)
        i == getClient(ns)
    IN  RedisReply(i, DEL(server[i], db_keys), None)

\* response callback of DELIE: r and int(r) == 1 or False
RedisRemoveIf(ns, key, data) ==
    LET db_key == add_key_ns_prefix(ns, key)
        i == getClient(ns)
        r == DELIE(server[i], db_key, data)
    IN  RedisReply(i, r, r.reply = 1)

(***************************************************************************)
(* FakeDictBackend: write and publish.  The messages are put on the queue  *)
(* one by one after the write, in the order of the dict.                   *)
(***************************************************************************)
FakePublish(r, channels_and_events) ==
    [r EXCEPT !.msgs = channels_and_events]

FakeSetAndPublish(ns, channels_and_events, data_map) ==
    FakePublish(FakeSet(ns, data_map), channels_and_events)

\* faulty variant: publishes whether or not the write took effect
FakeSetIfAndPublishAlways(ns, channels_and_events, key, old_data, new_data) ==
    FakePublish(FakeSetIf(ns, key, old_data, new_data), channels_and_events)

FakeSetIfAndPublish(ns, channels_and_events, key, old_data, new_data) ==
    LET r == FakeSetIf(ns, key, old_data, new_data)
    IN  IF r.ret THEN FakePublish(r, channels_and_events) ELSE r

FakeSetIfNotExistsAndPublish(ns, channels_and_events, key, data) ==
    LET r == FakeSetIfNotExists(ns, key, data)
    IN  IF r.ret THEN FakePublish(r, channels_and_events) ELSE r

FakeRemoveAndPublish(ns, channels_and_events, keys) ==
    FakePublish(FakeRemove(ns, keys), channels_and_events)

FakeRemoveIfAndPublish(ns, channels_and_events, key, data) ==
    LET r == FakeRemoveIf(ns, key, data)
    IN  IF r.ret THEN FakePublish(r, channels_and_events) ELSE r

FakeRemoveAllAndPublish(ns, channels_and_events) ==
    FakePublish([Same EXCEPT !.db = EmptyDict], channels_and_events)

(***************************************************************************)
(* RedisBackend: write and publish, each one server command.               *)
(***************************************************************************)
event_separator == <<"_", "_", "_">>

RECURSIVE JoinEvents(_)
JoinEvents(events) ==
    IF Len(events) = 1 THEN events[1]
    ELSE events[1] \o event_separator \o JoinEvents(Tail(events))

RECURSIVE prepare_channels_list(_, _)
prepare_channels_list(ns, channels_and_events) ==
    IF channels_and_events = <<>> THEN <<>>
    ELSE LET channel == Head(channels_and_events)[1]
             events == Head(channels_and_events)[2]
         IN  (IF events = <<>> THEN <<None>>
              ELSE <<add_key_ns_prefix(ns, channel), JoinEvents(events)>>)
             \o prepare_channels_list(ns, Tail(channels_and_events))

prepare_channels(ns, channels_and_events) ==
    LET channels_and_events_prepared ==
            prepare_channels_list(ns, channels_and_events)
    IN  [prepared |-> channels_and_events_prepared,
         pairs_cnt |-> Len(channels_and_events_prepared) \div 2]

\* a *MPUB command: the write r, then the publishes when `publish` holds
RedisPublishReply(i, r, ret, publish, prepared) ==
    [RedisReply(i, r, ret) EXCEPT
        !.clients = IF publish
                    THEN [clients EXCEPT ![i] = PUBLISH(clients[i], prepared)]
                    ELSE clients]

RedisSetAndPublish(ns, channels_and_events, data_map) ==
    LET db_data_map == add_data_map_ns_prefix(ns, data_map)
        p == prepare_channels(ns, channels_and_events)
        i == getClient(ns)
    IN  RedisPublishReply(i, MSET(server[i], db_data_map), None, TRUE, p.prepared)

RedisSetIfAndPublish(ns, channels_and_events, key, old_data, new_data) ==
    LET db_key == add_key_ns_prefix(ns, key)
        p == prepare_channels(ns, channels_and_events)
        i == getClient(ns)
        r == SETIE(server[i], db_key, new_data, old_data)
    IN  RedisPublishReply(i, r, r.reply = "OK", r.reply = "OK", p.prepared)

RedisSetIfNotExistsAndPublish(ns, channels_and_events, key, data) ==
    LET db_key == add_key_ns_prefix(ns, key)
        p == prepare_channels(ns, channels_and_events)
        i == getClient(ns)
        r == SETNX(server[i], db_key, data)
    IN  RedisPublishReply(i, r, r.reply = 1, r.reply = 1, p.prepared)

RedisRemoveAndPublish(ns, channels_and_events, keys) ==
    LET db_keys == add_keys_ns_prefix(ns, keys)
        p == prepare_channels(ns, channels_and_events)
        i == getClient(ns)
        r == DEL(server[i], db_keys)
    IN  RedisPublishReply(i, r, None, r.reply > 0, p.prepared)

RedisRemoveIfAndPublish(ns, channels_and_events, key, data) ==
    LET db_key == add_key_ns_prefix(ns, key)
        p == prepare_channels(ns, channels_and_events)
        i == getClient(ns)
        r == DELIE(server[i], db_key, data)
    IN  RedisPublishReply(i, r, r.reply = 1, r.reply = 1, p.prepared)

RedisRemoveAllAndPublish(ns, channels_and_events) ==
    LET i == getClient(ns)
        keys == KEYS(server[i], add_key_ns_prefix(ns, <<"*">>))
        p == prepare_channels(ns, channels_and_events)
        r == DEL(server[i], keys)
    IN  RedisPublishReply(i, r, None, r.reply > 0, p.prepared)

(***************************************************************************)
(* PubSub.handle_message and the event loop of both backends.              *)
(***************************************************************************)
StartsWith(str, prefix) ==
    Len(str) >= Len(prefix) /\ SubSeq(str, 1, Len(prefix)) = prefix

\* str.split(sep)
RECURSIVE Split(_, _)
Split(str, sep) ==
    IF str = <<>> THEN << <<>> >>
    ELSE IF StartsWith(str, sep)
         THEN << <<>> >> \o Split(SubSeq(str, Len(sep) + 1, Len(str)), sep)
    ELSE LET r == Split(Tail(str), sep)
         IN  [r EXCEPT ![1] = <<Head(str)>> \o r[1]]

NewRedisConn == [run_in_thread |-> FALSE, pubsub_thread |-> "initial",
                 channels |-> EmptyDict, pending_unsubscribe |-> {},
                 inbox |-> <<>>]

\* conn after the response, the callback invocation made (or <<>>), and the
\* value returned
handle_message(conn, response) ==
    IF response.type = "unsubscribe"
    THEN [conn |-> IF response.channel \in conn.pending_unsubscribe
                   THEN [conn EXCEPT
                           !.pending_unsubscribe = @ \ {response.channel},
                           !.channels = DictPop(@, {response.channel})]
                   ELSE conn,
          invoked |-> <<>>, ret |-> None]
    ELSE IF response.channel \in DOMAIN conn.channels
         THEN LET message_channel ==
                      strip_ns_from_bin_key(<<>>, response.channel)
                  messages == Split(response.data, event_separator)
              IN  [conn |-> conn,
                   invoked |-> << <<message_channel, messages>> >>,
                   ret |-> <<message_channel, messages>>]
         ELSE [conn |-> conn, invoked |-> <<>>, ret |-> response]

\* PubSub.get_message on a connection with a response waiting
get_message(conn) ==
    handle_message([conn EXCEPT !.inbox = Tail(@)], Head(conn.inbox))

\* PubSub.subscribe(**{channel: cb}) for each channel, and the thread start
RedisSubscribe(conn, cb, channels) ==
    IF channels = {} THEN conn
    ELSE [conn EXCEPT
            !.channels = DictUpdate(@, [c \in channels |-> cb]),
            !.pending_unsubscribe = @ \ channels,
            !.pubsub_thread = IF conn.run_in_thread THEN "alive" ELSE @]

\* PubSub.unsubscribe(channel) for each channel: the server answers each
\* channel it had subscribed with an unsubscribe message
RECURSIVE RedisUnsubscribe(_, _)
RedisUnsubscribe(conn, channels) ==
    IF channels = {} THEN conn
    ELSE LET c == CHOOSE c \in channels : TRUE
         IN  RedisUnsubscribe(
               IF c \in ServerChannels(conn)
               THEN [conn EXCEPT
                       !.pending_unsubscribe = @ \cup {c},
                       !.inbox = Append(@, [type |-> "unsubscribe",
                                            channel |-> c, data |-> None])]
               ELSE conn,
               channels \ {c})

\* the loop of RedisBackend.start_event_listener from connection i on
RECURSIVE RedisStartEventListener(_, _)
RedisStartEventListener(cl, i) ==
    IF i > Len(cl) THEN [clients |-> cl, err |-> ""]
    ELSE IF cl[i].pubsub_thread = "alive"
         THEN [clients |-> cl, err |-> "RejectedByBackend"]
    ELSE RedisStartEventListener(
           [cl EXCEPT ![i] = [@ EXCEPT
              !.pubsub_thread =
                 IF DOMAIN cl[i].channels # {} /\ ServerChannels(cl[i]) # {}
                 THEN "alive" ELSE @,
              !.run_in_thread = TRUE]],
           i + 1)

(***************************************************************************)
(* The state machine: one application thread calling the facade, a thread  *)
(* polling handle_events(), and the event-loop threads.                    *)
(***************************************************************************)
QueueSize == 1

Fake == db_type = "FAKE_DICT"

ChannelSets == SUBSET Channels \ {{}}
Callbacks == {"cb"}

\* a call of the facade: the operation, the exception raised ("" if none)
\* and, kept for set_if only, the arguments
Call(op, err, args) == [op |-> op, err |-> err, args |-> args]

\* a call on a lock handle: the operation and the exception raised
LockCall(op, err) == [op |-> op, err |-> err]

\* two lock handles of get_lock_resource(ns, name, expiration) with the same
\* ns and name; token 0 is redis.lock.Lock.local.token = None
Handles == {1, 2}
NoHandle == [created |-> FALSE, locked |-> FALSE, expiration |-> 0,
             token |-> 0, acquiring |-> 0, retries |-> 0, redis |-> 0]
NoKey == [token |-> 0, pttl |-> 0]

\* two worker threads that share one FakeDictBackend; a thread outside a
\* call is at line 0
Threads == {1, 2}
NoCall == [op |-> "none", line |-> 0, key |-> <<>>, old_data |-> "",
           new_data |-> "", ret |-> "none"]

Init ==
    /\ db_type \in {"FAKE_DICT", "REDIS"}
    /\ \E n \in 1..MaxClients :
          /\ clients = IF Fake THEN <<>> ELSE [i \in 1..n |-> NewRedisConn]
          /\ server = IF Fake THEN <<>> ELSE [i \in 1..n |-> EmptyDict]
    /\ next_client_event = 0
    /\ db = EmptyDict
    /\ queue = <<>>
    /\ channel_cbs = EmptyDict
    /\ listen_thread = "initial"
    /\ run_in_thread = FALSE
    /\ result = Call("none", "", <<>>)
    /\ returned = None
    /\ pending = <<>>
    /\ delivered = <<>>
    /\ started = FALSE
    /\ polled = FALSE
    /\ in_callback = <<>>
    /\ thread_call = [t \in Threads |-> NoCall]
    /\ with_block = [h \in Handles |-> "out"]
    /\ lock_handle = [h \in Handles |-> NoHandle]
    /\ lock_key = NoKey
    /\ next_token = 0
    /\ lock_result = [h \in Handles |-> LockCall("none", "")]
    /\ lock_returned = [h \in Handles |-> [none |-> None]]

\* the application thread is not inside a call
Ready == pending = <<>>

RECURSIVE SumInbox(_, _)
SumInbox(cl, i) == IF i = 0 THEN 0 ELSE Len(cl[i].inbox) + SumInbox(cl, i - 1)

\* messages published and not dropped
InFlight == Len(delivered) + Len(queue) + Len(pending)
            + SumInbox(clients, Len(clients))

CanPublish(channels_and_events) ==
    InFlight + Len(channels_and_events) <= MaxEvents

\* the facade turns a str event into a list of one event
NormaliseEvents(channels_and_events) ==
    [i \in DOMAIN channels_and_events |->
        LET events == channels_and_events[i][2]
        IN  <<channels_and_events[i][1],
              IF "str" \in DOMAIN events THEN <<events.str>> ELSE events.list>>]

\* the application thread's call `op` with backend result r
Do(op, args, r) ==
    /\ Ready
    /\ db' = r.db
    /\ server' = r.server
    /\ clients' = r.clients
    /\ result' = Call(op, "", args)
    /\ returned' = r.ret
    /\ pending' = r.msgs
    /\ UNCHANGED <<started, polled, in_callback, stepvars, lockvars>>
    /\ UNCHANGED <<db_type, next_client_event, queue, channel_cbs,
                   listen_thread, run_in_thread, delivered>>

\* the application thread's call `op` raises err and does nothing else
Raise(op, err) ==
    /\ Ready
    /\ result' = Call(op, err, <<>>)
    /\ returned' = None
    /\ UNCHANGED <<started, polled, in_callback, stepvars, lockvars>>
    /\ UNCHANGED <<db_type, clients, next_client_event, db, queue,
                   channel_cbs, listen_thread, run_in_thread, server, pending,
                   delivered>>

\* an argument that is not bytes where bytes are required
NotBytes == "int"

\* the decorator of the facade's methods, for their bytes arguments
func_arg_checker(bytes_args) ==
    IF \E arg \in bytes_args : arg = NotBytes THEN "SdlTypeError" ELSE ""

validate_key_value_dict(kv) ==
    IF \E k \in DOMAIN kv : kv[k] = NotBytes THEN "SdlTypeError" ELSE ""

\* sub in str
Contains(str, sub) ==
    \E i \in 0..(Len(str) - Len(sub)) : SubSeq(str, i + 1, i + Len(sub)) = sub

\* events are [str |-> event], [list |-> events] or, of another type,
\* [int |-> n]
validate_channels_events(channels_and_events) ==
    IF \E i \in DOMAIN channels_and_events :
          LET events == channels_and_events[i][2]
          IN  IF "list" \in DOMAIN events
              THEN \E n \in DOMAIN events.list :
                      Contains(events.list[n], event_separator)
              ELSE IF "str" \in DOMAIN events
                   THEN Contains(events.str, event_separator)
              ELSE TRUE
    THEN "SdlTypeError" ELSE ""

\* the error of the first check that fails, "" if none does
FirstError(err1, err2) == IF err1 # "" THEN err1 ELSE err2

BackendFindKeys(ns, key_pattern) ==
    IF Fake THEN FakeFindKeys(ns, key_pattern)
    ELSE RedisFindKeys(ns, key_pattern)

BackendGet(ns, keys) ==
    IF Fake THEN FakeGet(ns, keys) ELSE RedisGet(ns, keys)

BackendRemove(ns, keys) ==
    IF Fake THEN FakeRemove(ns, keys) ELSE RedisRemove(ns, keys)

BackendFindAndGet(ns, key_pattern) ==
    IF Fake THEN FakeFindAndGet(ns, key_pattern)
    ELSE RedisFindAndGet(ns, key_pattern)

\* str < str: by code points, a proper prefix first
RECURSIVE StrLess(_, _)
StrLess(x, y) ==
    IF y = <<>> THEN FALSE
    ELSE IF x = <<>> THEN TRUE
    ELSE IF Head(x) = Head(y) THEN StrLess(Tail(x), Tail(y))
    ELSE Ord(Head(x)) < Ord(Head(y))

\* sorted(keys)
sorted(keys) ==
    CHOOSE l \in [1..Cardinality(keys) -> keys] :
       \A i \in DOMAIN l, j \in DOMAIN l : i < j => StrLess(l[i], l[j])

\* faulty variant: the items in descending order of their keys
ItemsDescending(disordered) ==
    LET l == sorted(DOMAIN disordered)
    IN  [i \in DOMAIN l |-> <<l[Len(l) + 1 - i], disordered[l[Len(l) + 1 - i]]>>]

\* {k: disordered[k] for k in sorted(disordered)}: the items of the dict
\* returned, in the order of iteration
SortedItems(disordered) ==
    LET l == sorted(DOMAIN disordered)
    IN  [i \in DOMAIN l |-> <<l[i], disordered[l[i]]>>]

set(ns, data_map) ==
    LET err == validate_key_value_dict(data_map)
    IN  IF err # "" THEN Raise("set", err)
        ELSE Do("set", <<>>,
                IF Fake THEN FakeSet(ns, data_map) ELSE RedisSet(ns, data_map))

set_if(ns, key, old_data, new_data) ==
    LET err == func_arg_checker({old_data, new_data})
    IN  IF err # "" THEN Raise("set_if", err)
        ELSE Do("set_if", <<ns, key, old_data, new_data>>,
                IF Fake THEN FakeSetIf(ns, key, old_data, new_data)
                ELSE RedisSetIf(ns, key, old_data, new_data))

set_if_not_exists(ns, key, data) ==
    LET err == func_arg_checker({data})
    IN  IF err # "" THEN Raise("set_if_not_exists", err)
        ELSE Do("set_if_not_exists", <<>>,
                IF Fake THEN FakeSetIfNotExists(ns, key, data)
                ELSE RedisSetIfNotExists(ns, key, data))

remove(ns, keys) == Do("remove", <<>>, BackendRemove(ns, keys))

remove_if(ns, key, data) ==
    LET err == func_arg_checker({data})
    IN  IF err # "" THEN Raise("remove_if", err)
        ELSE Do("remove_if", <<>>,
                IF Fake THEN FakeRemoveIf(ns, key, data)
                ELSE RedisRemoveIf(ns, key, data))

remove_all(ns) ==
    LET keys == BackendFindKeys(ns, <<"*">>)
    IN  Do("remove_all", <<>>, IF keys # {} THEN BackendRemove(ns, keys) ELSE Same)

get(ns, keys) ==
    Do("get", <<>>, [Same EXCEPT !.ret = SortedItems(BackendGet(ns, keys))])

find_and_get(ns, key_pattern) ==
    Do("find_and_get", <<>>,
       [Same EXCEPT !.ret = SortedItems(BackendFindAndGet(ns, key_pattern))])

find_keys(ns, key_pattern) ==
    Do("find_keys", <<>>, [Same EXCEPT !.ret = BackendFindKeys(ns, key_pattern)])

add_member(ns, group, members) ==
    Do("add_member", <<>>,
       IF Fake THEN FakeAddMember(ns, group, members)
       ELSE RedisAddMember(ns, group, members))

remove_member(ns, group, members) ==
    Do("remove_member", <<>>,
       IF Fake THEN FakeRemoveMember(ns, group, members)
       ELSE RedisRemoveMember(ns, group, members))

remove_group(ns, group) ==
    Do("remove_group", <<>>,
       IF Fake THEN FakeRemoveGroup(ns, group) ELSE RedisRemoveGroup(ns, group))

BackendGetMembers(ns, group) ==
    IF Fake THEN FakeGetMembers(ns, group) ELSE RedisGetMembers(ns, group)

get_members(ns, group) ==
    Do("get_members", <<>>, [Same EXCEPT !.ret = BackendGetMembers(ns, group)])

is_member(ns, group, member) ==
    LET err == func_arg_checker({member})
    IN  IF err # "" THEN Raise("is_member", err)
        ELSE Do("is_member", <<>>,
                [Same EXCEPT !.ret = IF Fake THEN FakeIsMember(ns, group, member)
                                     ELSE RedisIsMember(ns, group, member)])

group_size(ns, group) ==
    Do("group_size", <<>>,
       [Same EXCEPT !.ret = IF Fake THEN FakeGroupSize(ns, group)
                            ELSE RedisGroupSize(ns, group)])

\* faulty variant: the data is written before the events are validated
set_and_publish_write_first(ns, channels_and_events, data_map) ==
    LET err == validate_key_value_dict(data_map)
        r == IF Fake THEN FakeSet(ns, data_map) ELSE RedisSet(ns, data_map)
    IN  IF err # "" THEN Raise("set_and_publish", err)
        ELSE IF validate_channels_events(channels_and_events) # ""
        THEN /\ Ready
             /\ db' = r.db
             /\ server' = r.server
             /\ result' = Call("set_and_publish", "SdlTypeError", <<>>)
             /\ returned' = None
             /\ UNCHANGED <<started, polled, in_callback, stepvars, lockvars>>
             /\ UNCHANGED <<db_type, clients, next_client_event, queue,
                            channel_cbs, listen_thread, run_in_thread, pending,
                            delivered>>
        ELSE LET ce == NormaliseEvents(channels_and_events)
             IN  /\ CanPublish(ce)
                 /\ Do("set_and_publish", <<>>,
                       IF Fake THEN FakeSetAndPublish(ns, ce, data_map)
                       ELSE RedisSetAndPublish(ns, ce, data_map))

set_and_publish(ns, channels_and_events, data_map) ==
    LET err == FirstError(validate_key_value_dict(data_map),
                          validate_channels_events(channels_and_events))
        ce == NormaliseEvents(channels_and_events)
    IN  IF err # "" THEN Raise("set_and_publish", err)
        ELSE /\ CanPublish(ce)
             /\ Do("set_and_publish", <<>>,
                   IF Fake THEN FakeSetAndPublish(ns, ce, data_map)
                   ELSE RedisSetAndPublish(ns, ce, data_map))

set_if_and_publish(ns, channels_and_events, key, old_data, new_data) ==
    LET err == FirstError(func_arg_checker({old_data, new_data}),
                          validate_channels_events(channels_and_events))
        ce == NormaliseEvents(channels_and_events)
    IN  IF err # "" THEN Raise("set_if_and_publish", err)
        ELSE /\ CanPublish(ce)
             /\ Do("set_if_and_publish", <<>>,
                   IF Fake
                   THEN FakeSetIfAndPublish(ns, ce, key, old_data, new_data)
                   ELSE RedisSetIfAndPublish(ns, ce, key, old_data, new_data))

set_if_not_exists_and_publish(ns, channels_and_events, key, data) ==
    LET err == FirstError(func_arg_checker({data}),
                          validate_channels_events(channels_and_events))
        ce == NormaliseEvents(channels_and_events)
    IN  IF err # "" THEN Raise("set_if_not_exists_and_publish", err)
        ELSE /\ CanPublish(ce)
             /\ Do("set_if_not_exists_and_publish", <<>>,
                   IF Fake THEN FakeSetIfNotExistsAndPublish(ns, ce, key, data)
                   ELSE RedisSetIfNotExistsAndPublish(ns, ce, key, data))

remove_and_publish(ns, channels_and_events, keys) ==
    LET err == validate_channels_events(channels_and_events)
        ce == NormaliseEvents(channels_and_events)
    IN  IF err # "" THEN Raise("remove_and_publish", err)
        ELSE /\ CanPublish(ce)
             /\ Do("remove_and_publish", <<>>,
                   IF Fake THEN FakeRemoveAndPublish(ns, ce, keys)
                   ELSE RedisRemoveAndPublish(ns, ce, keys))

remove_if_and_publish(ns, channels_and_events, key, data) ==
    LET err == FirstError(func_arg_checker({data}),
                          validate_channels_events(channels_and_events))
        ce == NormaliseEvents(channels_and_events)
    IN  IF err # "" THEN Raise("remove_if_and_publish", err)
        ELSE /\ CanPublish(ce)
             /\ Do("remove_if_and_publish", <<>>,
                   IF Fake THEN FakeRemoveIfAndPublish(ns, ce, key, data)
                   ELSE RedisRemoveIfAndPublish(ns, ce, key, data))

remove_all_and_publish(ns, channels_and_events) ==
    LET err == validate_channels_events(channels_and_events)
        ce == NormaliseEvents(channels_and_events)
    IN  IF err # "" THEN Raise("remove_all_and_publish", err)
        ELSE /\ CanPublish(ce)
             /\ Do("remove_all_and_publish", <<>>,
                   IF Fake THEN FakeRemoveAllAndPublish(ns, ce)
                   ELSE RedisRemoveAllAndPublish(ns, ce))

\* FakeDictBackend: the next self._queue.put of the call in progress; it
\* waits while the queue is full
publish_put ==
    /\ pending # <<>>
    /\ Len(queue) < QueueSize
    /\ queue' = Append(queue, Head(pending))
    /\ pending' = Tail(pending)
    /\ UNCHANGED <<started, polled, in_callback, stepvars, lockvars>>
    /\ UNCHANGED <<db_type, clients, next_client_event, db, channel_cbs,
                   listen_thread, run_in_thread, server, result, returned,
                   delivered>>

subscribe_channel(ns, cb, channels) ==
    /\ Ready
    /\ IF Fake
       THEN /\ channel_cbs' = DictUpdate(channel_cbs, [c \in channels |-> cb])
            /\ listen_thread' = IF channels # {} /\ run_in_thread
                                THEN "alive" ELSE listen_thread
            /\ UNCHANGED clients
       ELSE /\ clients' = [clients EXCEPT ![getClientConn(ns)] =
                              RedisSubscribe(@, cb, add_keys_ns_prefix(ns, channels))]
            /\ UNCHANGED <<channel_cbs, listen_thread>>
    /\ result' = Call("subscribe_channel", "", <<>>)
    /\ returned' = None
    /\ UNCHANGED <<started, polled, in_callback, stepvars, lockvars>>
    /\ UNCHANGED <<db_type, next_client_event, db, queue, run_in_thread,
                   server, pending, delivered>>

\* faulty variant: returns without removing the registration
unsubscribe_channel_keep(ns, channels) ==
    /\ Ready
    /\ result' = Call("unsubscribe_channel", "", <<>>)
    /\ returned' = None
    /\ UNCHANGED <<started, polled, in_callback, stepvars, lockvars>>
    /\ UNCHANGED <<db_type, clients, next_client_event, db, queue,
                   channel_cbs, listen_thread, run_in_thread, server, pending,
                   delivered>>

unsubscribe_channel(ns, channels) ==
    /\ Ready
    /\ Fake \/ InFlight + Cardinality(channels) <= MaxEvents
    /\ IF Fake
       THEN /\ channel_cbs' = DictPop(channel_cbs, channels)
            /\ UNCHANGED clients
       ELSE /\ clients' = [clients EXCEPT ![getClientConn(ns)] =
                              RedisUnsubscribe(@, add_keys_ns_prefix(ns, channels))]
            /\ UNCHANGED channel_cbs
    /\ result' = Call("unsubscribe_channel", "", <<>>)
    /\ returned' = None
    /\ UNCHANGED <<started, polled, in_callback, stepvars, lockvars>>
    /\ UNCHANGED <<db_type, next_client_event, db, queue, listen_thread,
                   run_in_thread, server, pending, delivered>>

\* faulty variant: does not set _run_in_thread
FakeStartEventListenerNoFlag ==
    IF listen_thread = "alive"
    THEN [listen_thread |-> listen_thread, run_in_thread |-> run_in_thread,
          err |-> "Exception"]
    ELSE [listen_thread |-> IF DOMAIN channel_cbs # {} THEN "alive"
                            ELSE listen_thread,
          run_in_thread |-> run_in_thread, err |-> ""]

\* faulty variant: raises when no channel is subscribed
FakeStartEventListenerStrict ==
    IF listen_thread = "alive" \/ DOMAIN channel_cbs = {}
    THEN [listen_thread |-> listen_thread, run_in_thread |-> run_in_thread,
          err |-> "Exception"]
    ELSE [listen_thread |-> "alive", run_in_thread |-> TRUE, err |-> ""]

FakeStartEventListener ==
    IF listen_thread = "alive"
    THEN [listen_thread |-> listen_thread, run_in_thread |-> run_in_thread,
          err |-> "Exception"]
    ELSE [listen_thread |-> IF DOMAIN channel_cbs # {} THEN "alive"
                            ELSE listen_thread,
          run_in_thread |-> TRUE, err |-> ""]

start_event_listener ==
    /\ Ready
    /\ IF Fake
       THEN LET r == FakeStartEventListener
            IN  /\ listen_thread' = r.listen_thread
                /\ run_in_thread' = r.run_in_thread
                /\ result' = Call("start_event_listener", r.err, <<>>)
                /\ returned' = None
                /\ UNCHANGED clients
       ELSE LET r == RedisStartEventListener(clients, 1)
            IN  /\ clients' = r.clients
                /\ result' = Call("start_event_listener", r.err, <<>>)
                /\ returned' = None
                /\ UNCHANGED <<listen_thread, run_in_thread>>
    /\ started' = TRUE
    /\ UNCHANGED <<polled, in_callback, stepvars, lockvars>>
    /\ UNCHANGED <<db_type, next_client_event, db, queue, channel_cbs,
                   server, pending, delivered>>

\* faulty variant: tests the thread only, not _run_in_thread
FakeHandleEventsAliveOnly ==
    IF listen_thread = "alive"
    THEN [queue |-> queue, invoked |-> <<>>, err |-> "Exception", ret |-> None]
    ELSE IF queue = <<>>
         THEN [queue |-> queue, invoked |-> <<>>, err |-> "", ret |-> None]
    ELSE LET message == Head(queue)
         IN  [queue |-> Tail(queue),
              invoked |-> IF message[1] \in DOMAIN channel_cbs
                          THEN <<message>> ELSE <<>>,
              err |-> "", ret |-> message]

\* FakeDictBackend.handle_events: the new queue, the callback invocation
\* made (or <<>>), the error raised and the value returned
FakeHandleEvents ==
    IF listen_thread = "alive" \/ run_in_thread
    THEN [queue |-> queue, invoked |-> <<>>, err |-> "Exception", ret |-> None]
    ELSE IF queue = <<>>
         THEN [queue |-> queue, invoked |-> <<>>, err |-> "", ret |-> None]
    ELSE LET message == Head(queue)
         IN  [queue |-> Tail(queue),
              invoked |-> IF message[1] \in DOMAIN channel_cbs
                          THEN <<message>> ELSE <<>>,
              err |-> "", ret |-> message]

\* RedisBackend.handle_events on the connection whose turn it is
RedisHandleEvents(i) ==
    LET redis_ctx == clients[i]
    IN  IF redis_ctx.pubsub_thread = "alive" \/ redis_ctx.run_in_thread
        THEN [conn |-> redis_ctx, invoked |-> <<>>,
              err |-> "RejectedByBackend", ret |-> None]
        ELSE IF redis_ctx.inbox = <<>>
             THEN [conn |-> redis_ctx, invoked |-> <<>>, err |-> "", ret |-> None]
        ELSE LET r == get_message(redis_ctx)
             IN  [conn |-> r.conn, invoked |-> r.invoked, err |-> "",
                  ret |-> r.ret]

handle_events ==
    /\ IF Fake
       THEN LET r == FakeHandleEvents
            IN  /\ queue' = r.queue
                /\ delivered' = delivered \o r.invoked
                /\ result' = Call("handle_events", r.err, <<>>)
                /\ returned' = r.ret
                /\ UNCHANGED <<clients, next_client_event>>
       ELSE LET i == IF next_client_event >= Len(clients) THEN 1
                     ELSE next_client_event + 1
                r == RedisHandleEvents(i)
            IN  /\ next_client_event' = i
                /\ clients' = [clients EXCEPT ![i] = r.conn]
                /\ delivered' = delivered \o r.invoked
                /\ result' = Call("handle_events", r.err, <<>>)
                /\ returned' = r.ret
                /\ UNCHANGED queue
    /\ polled' = (polled \/ result'.err = "")
    /\ UNCHANGED <<started, in_callback, stepvars, lockvars>>
    /\ UNCHANGED <<db_type, db, channel_cbs, listen_thread, run_in_thread,
                   server, pending>>

\* faulty variant: the message handled stays on the queue
listen_without_get ==
    /\ Fake
    /\ listen_thread = "alive"
    /\ queue # <<>>
    /\ LET message == Head(queue)
       IN  delivered' = IF message[1] \in DOMAIN channel_cbs
                        THEN Append(delivered, message) ELSE delivered
    /\ UNCHANGED <<started, polled, in_callback, stepvars, lockvars>>
    /\ UNCHANGED <<db_type, clients, next_client_event, db, queue,
                   channel_cbs, listen_thread, run_in_thread, server, result,
                   returned, pending>>

\* one turn of FakeDictBackend._listen
listen ==
    /\ Fake
    /\ listen_thread = "alive"
    /\ queue # <<>>
    /\ LET message == Head(queue)
       IN  /\ queue' = Tail(queue)
           /\ delivered' = IF message[1] \in DOMAIN channel_cbs
                           THEN Append(delivered, message) ELSE delivered
    /\ UNCHANGED <<started, polled, in_callback, stepvars, lockvars>>
    /\ UNCHANGED <<db_type, clients, next_client_event, db, channel_cbs,
                   listen_thread, run_in_thread, server, result, returned,
                   pending>>

\* one turn of the thread PubSub.run_in_thread started on connection i
pubsub_thread_run(i) ==
    /\ ~Fake
    /\ clients[i].pubsub_thread = "alive"
    /\ clients[i].inbox # <<>>
    /\ LET r == get_message(clients[i])
       IN  /\ clients' = [clients EXCEPT ![i] = r.conn]
           /\ delivered' = delivered \o r.invoked
    /\ UNCHANGED <<started, polled, in_callback, stepvars, lockvars>>
    /\ UNCHANGED <<db_type, next_client_event, db, queue, channel_cbs,
                   listen_thread, run_in_thread, server, result, returned,
                   pending>>

\* the write operations of the facade with their arguments drawn from the
\* given namespaces and keys
PlainWrite(nss, keys) ==
    \/ \E ns \in nss, data_map \in UNION {[S -> Values] : S \in SUBSET keys \ {{}}} :
          set(ns, data_map)
    \/ \E ns \in nss, key \in keys, old_data \in Values, new_data \in Values :
          set_if(ns, key, old_data, new_data)
    \/ \E ns \in nss, key \in keys, data \in Values :
          set_if_not_exists(ns, key, data)
    \/ \E ns \in nss, ks \in SUBSET keys \ {{}} : remove(ns, ks)
    \/ \E ns \in nss, key \in keys, data \in Values : remove_if(ns, key, data)
    \/ \E ns \in nss : remove_all(ns)

PublishWrite(nss, keys) ==
    \/ \E ns \in nss, ce \in ChannelsAndEventsInputs,
          data_map \in UNION {[S -> Values] : S \in SUBSET keys \ {{}}} :
          set_and_publish(ns, ce, data_map)
    \/ \E ns \in nss, ce \in ChannelsAndEventsInputs, key \in keys,
          old_data \in Values, new_data \in Values :
          set_if_and_publish(ns, ce, key, old_data, new_data)
    \/ \E ns \in nss, ce \in ChannelsAndEventsInputs, key \in keys,
          data \in Values :
          set_if_not_exists_and_publish(ns, ce, key, data)
    \/ \E ns \in nss, ce \in ChannelsAndEventsInputs, ks \in SUBSET keys \ {{}} :
          remove_and_publish(ns, ce, ks)
    \/ \E ns \in nss, ce \in ChannelsAndEventsInputs, key \in keys,
          data \in Values :
          remove_if_and_publish(ns, ce, key, data)
    \/ \E ns \in nss, ce \in ChannelsAndEventsInputs :
          remove_all_and_publish(ns, ce)

\* Key-value operations under two namespaces; notifications are polled and,
\* no channel being subscribed, dropped.
KVNext ==
    \/ PlainWrite(NS, Keys)
    \/ PublishWrite(NS, Keys)
    \/ publish_put
    \/ handle_events

SpecKV == Init /\ [][KVNext]_vars

\* Publishing, subscribing and the two delivery modes under one namespace.
EventNS == {<<"a">>}
EventKeys == {<<"k">>}

Next ==
    \/ PublishWrite(EventNS, EventKeys)
    \/ publish_put
    \/ \E ns \in EventNS, cb \in Callbacks, channels \in ChannelSets :
          subscribe_channel(ns, cb, channels)
    \/ \E ns \in EventNS, channels \in ChannelSets :
          unsubscribe_channel(ns, channels)
    \/ start_event_listener
    \/ handle_events
    \/ listen
    \/ \E i \in 1..MaxClients : i <= Len(clients) /\ pubsub_thread_run(i)

Spec == Init /\ [][Next]_vars

\* Publishing to subscribers that poll with handle_events().
PublishNext ==
    \/ PublishWrite(EventNS, EventKeys)
    \/ publish_put
    \/ \E ns \in EventNS, cb \in Callbacks, channels \in ChannelSets :
          subscribe_channel(ns, cb, channels)
    \/ handle_events

SpecPublish == Init /\ [][PublishNext]_vars

\* An application that numbers the events it publishes: each event is the
\* number after the largest one still held by the library.
Event(n) == <<ToString(n)>>
EventNumber(event) == CHOOSE n \in 1..MaxEvents : Event(n) = event

HeldEvents ==
    {delivered[i][2][1] : i \in DOMAIN delivered}
    \cup {queue[i][2][1] : i \in DOMAIN queue}
    \cup {pending[i][2][1] : i \in DOMAIN pending}
    \cup UNION {{clients[c].inbox[i].data :
                   i \in {j \in DOMAIN clients[c].inbox :
                             clients[c].inbox[j].type = "message"}} :
                c \in DOMAIN clients}

NextEventNumber ==
    IF HeldEvents = {} THEN 1
    ELSE 1 + CHOOSE n \in 1..MaxEvents :
                /\ Event(n) \in HeldEvents
                /\ \A e \in HeldEvents : EventNumber(e) <= n

publish_next_event(ns, channel, data_map) ==
    /\ NextEventNumber <= MaxEvents
    /\ set_and_publish(ns, << <<channel, [str |-> Event(NextEventNumber)]>> >>,
                       data_map)

OrderNext ==
    \/ \E ns \in EventNS, channel \in Channels,
          data_map \in [EventKeys -> Values] :
          publish_next_event(ns, channel, data_map)
    \/ publish_put
    \/ \E ns \in EventNS, cb \in Callbacks, channels \in ChannelSets :
          subscribe_channel(ns, cb, channels)
    \/ start_event_listener
    \/ handle_events
    \/ listen
    \/ \E i \in 1..MaxClients : i <= Len(clients) /\ pubsub_thread_run(i)

SpecOrder == Init /\ [][OrderNext]_vars

\* Callbacks that take time and call the library.  An entry of in_callback
\* is an invocation that has not returned: the connection that received the
\* message, the thread that made the invocation and the message.
Invocation(conn, thread, message) ==
    [conn |-> conn, thread |-> thread, message |-> message]

\* the thread of connection i, or the polling thread, is inside a callback
InCallback(i, thread) ==
    \E n \in DOMAIN in_callback :
       in_callback[n].conn = i /\ in_callback[n].thread = thread

\* handle_events() that finds a message of a subscribed channel: the call
\* is inside cb(message[0], message[1])
handle_events_enter ==
    /\ IF Fake
       THEN LET r == FakeHandleEvents
            IN  /\ r.invoked # <<>>
                /\ queue' = r.queue
                /\ delivered' = delivered \o r.invoked
                /\ in_callback' = Append(in_callback,
                                         Invocation(1, "poll", r.ret))
                /\ UNCHANGED <<clients, next_client_event>>
       ELSE LET i == IF next_client_event >= Len(clients) THEN 1
                     ELSE next_client_event + 1
                r == RedisHandleEvents(i)
            IN  /\ r.invoked # <<>>
                /\ next_client_event' = i
                /\ clients' = [clients EXCEPT ![i] = r.conn]
                /\ delivered' = delivered \o r.invoked
                /\ in_callback' = Append(in_callback,
                                         Invocation(i, "poll", r.ret))
                /\ UNCHANGED queue
    /\ polled' = TRUE
    /\ UNCHANGED <<started, stepvars, lockvars>>
    /\ UNCHANGED <<db_type, db, channel_cbs, listen_thread, run_in_thread,
                   server, result, returned, pending>>

\* FakeDictBackend._listen with a message of a subscribed channel: the
\* thread is inside cb(message[0], message[1])
listen_enter ==
    /\ Fake
    /\ listen_thread = "alive"
    /\ ~InCallback(1, "loop")
    /\ queue # <<>>
    /\ Head(queue)[1] \in DOMAIN channel_cbs
    /\ queue' = Tail(queue)
    /\ delivered' = Append(delivered, Head(queue))
    /\ in_callback' = Append(in_callback, Invocation(1, "loop", Head(queue)))
    /\ UNCHANGED <<started, polled, stepvars, lockvars>>
    /\ UNCHANGED <<db_type, clients, next_client_event, db, channel_cbs,
                   listen_thread, run_in_thread, server, result, returned,
                   pending>>

\* the thread of connection i with a message of a subscribed channel: the
\* thread is inside the handler of the channel
pubsub_thread_enter(i) ==
    /\ ~Fake
    /\ clients[i].pubsub_thread = "alive"
    /\ ~InCallback(i, "loop")
    /\ clients[i].inbox # <<>>
    /\ LET r == get_message(clients[i])
       IN  /\ r.invoked # <<>>
           /\ clients' = [clients EXCEPT ![i] = r.conn]
           /\ delivered' = delivered \o r.invoked
           /\ in_callback' = Append(in_callback,
                                    Invocation(i, "loop", r.ret))
    /\ UNCHANGED <<started, polled, stepvars, lockvars>>
    /\ UNCHANGED <<db_type, next_client_event, db, queue, channel_cbs,
                   listen_thread, run_in_thread, server, result, returned,
                   pending>>

\* in_callback without its entry n
WithoutInvocation(n) ==
    SubSeq(in_callback, 1, n - 1) \o SubSeq(in_callback, n + 1, Len(in_callback))

\* the innermost callback of a thread returns; handle_events() then returns
\* the message to its caller
callback_return ==
    /\ \E n \in DOMAIN in_callback :
          /\ \A k \in DOMAIN in_callback :
                k > n => in_callback[k].thread # in_callback[n].thread
          /\ in_callback' = WithoutInvocation(n)
          /\ IF in_callback[n].thread = "poll"
             THEN /\ result' = Call("handle_events", "", <<>>)
                  /\ returned' = in_callback[n].message
             ELSE UNCHANGED <<result, returned>>
    /\ UNCHANGED <<started, polled, stepvars, lockvars>>
    /\ UNCHANGED <<db_type, clients, next_client_event, db, queue,
                   channel_cbs, listen_thread, run_in_thread, server, pending,
                   delivered>>

CallbackNext ==
    \/ \E ns \in EventNS, ce \in ChannelsAndEventsInputs,
          data_map \in [EventKeys -> Values] :
          set_and_publish(ns, ce, data_map)
    \/ publish_put
    \/ \E ns \in EventNS, cb \in Callbacks, channels \in ChannelSets :
          subscribe_channel(ns, cb, channels)
    \/ start_event_listener
    \/ handle_events /\ UNCHANGED delivered
    \/ handle_events_enter
    \/ ~InCallback(1, "loop") /\ listen /\ UNCHANGED delivered
    \/ listen_enter
    \/ \E i \in 1..MaxClients : i <= Len(clients) /\ pubsub_thread_enter(i)
    \/ callback_return

SpecCallback == Init /\ [][CallbackNext]_vars

\* Calls with arguments the facade accepts and arguments it rejects: events
\* with underscores in them, events of a wrong type and data that is not
\* bytes.
EventStrings == {<<>>, <<"_">>}

EventLists ==
    {<<e>> : e \in EventStrings}
    \cup {<<e, f>> : e \in EventStrings, f \in EventStrings}

EventsInputs ==
    {[list |-> l] : l \in EventLists}
    \cup {[str |-> e] : e \in EventStrings}
    \cup {[list |-> <<event_separator>>], [str |-> event_separator],
          [int |-> 1]}

ValidationNext ==
    \/ \E ns \in EventNS, events \in EventsInputs,
          data_map \in [EventKeys -> Values \cup {NotBytes}] :
          set_and_publish(ns, << << <<"c">>, events >> >>, data_map)
    \/ \E ns \in EventNS, events \in EventsInputs, ks \in SUBSET EventKeys \ {{}} :
          remove_and_publish(ns, << << <<"c">>, events >> >>, ks)
    \/ \E ns \in EventNS, data_map \in [EventKeys -> Values \cup {NotBytes}] :
          set(ns, data_map)
    \/ \E ns \in EventNS, key \in EventKeys, old_data \in Values \cup {NotBytes},
          new_data \in Values :
          set_if(ns, key, old_data, new_data)
    \/ publish_put
    \/ \E ns \in EventNS, cb \in Callbacks :
          subscribe_channel(ns, cb, {<<"c">>})
    \/ handle_events

SpecValidation == Init /\ [][ValidationNext]_vars

\* Writing, removing and reading back under two namespaces.
KeyPatterns == {<<"*">>, <<"k">>}

GetNext ==
    \/ \E ns \in NS, data_map \in UNION {[S -> Values] : S \in SUBSET Keys \ {{}}} :
          set(ns, data_map)
    \/ \E ns \in NS, ks \in SUBSET Keys \ {{}} : remove(ns, ks)
    \/ \E ns \in NS, ks \in SUBSET Keys \ {{}} : get(ns, ks)
    \/ \E ns \in NS, key_pattern \in KeyPatterns : find_and_get(ns, key_pattern)

SpecGet == Init /\ [][GetNext]_vars

\* Two namespaces that use a channel of the same name: the subscriptions
\* are made under SubscriberNS, whose events are "e"; the events published
\* under OtherNS are "g".
SubscriberNS == <<"a">>
OtherNS == <<"d">>
EventOf(ns) == IF ns = SubscriberNS THEN <<"e">> ELSE <<"g">>

ScopeNext ==
    \/ \E ns \in {SubscriberNS, OtherNS}, channel \in Channels,
          data_map \in [EventKeys -> Values] :
          set_and_publish(ns, << <<channel, [str |-> EventOf(ns)]>> >>, data_map)
    \/ publish_put
    \/ \E cb \in Callbacks, channels \in ChannelSets :
          subscribe_channel(SubscriberNS, cb, channels)
    \/ start_event_listener
    \/ handle_events
    \/ listen
    \/ \E i \in 1..MaxClients : i <= Len(clients) /\ pubsub_thread_run(i)

SpecScope == Init /\ [][ScopeNext]_vars

\* Groups of bytes members under two namespaces.
Groups == {<<"g">>}
MemberSets == SUBSET Values \ {{}}

GroupNext ==
    \/ \E ns \in NS, group \in Groups, members \in MemberSets :
          add_member(ns, group, members)
    \/ \E ns \in NS, group \in Groups, members \in MemberSets :
          remove_member(ns, group, members)
    \/ \E ns \in NS, group \in Groups : remove_group(ns, group)
    \/ \E ns \in NS, group \in Groups : get_members(ns, group)
    \/ \E ns \in NS, group \in Groups, member \in Values :
          is_member(ns, group, member)
    \/ \E ns \in NS, group \in Groups : group_size(ns, group)

SpecGroup == Init /\ [][GroupNext]_vars

\* the items of *members when members is bytes: the values of its bytes,
\* as redis-py sends them (b'v1' is 118, 49)
IterBytes(member) ==
    CASE member = "v1" -> {"118", "49"}
      [] member = "v2" -> {"118", "50"}
      [] OTHER -> {}

\* add_member and remove_member called with bytes as their members
\* argument: FakeDictBackend.add_member fails at members.copy()
add_member_bytes(ns, group, member) ==
    IF Fake THEN Raise("add_member", "AttributeError")
    ELSE Do("add_member", <<>>, RedisAddMember(ns, group, IterBytes(member)))

remove_member_bytes(ns, group, member) ==
    Do("remove_member", <<>>,
       IF Fake THEN FakeRemoveMember(ns, group, IterBytes(member))
       ELSE RedisRemoveMember(ns, group, IterBytes(member)))

GroupBytesNext ==
    \/ \E ns \in NS, group \in Groups, members \in MemberSets :
          add_member(ns, group, members)
    \/ \E ns \in NS, group \in Groups, member \in Values :
          add_member_bytes(ns, group, member)
    \/ \E ns \in NS, group \in Groups, member \in Values :
          remove_member_bytes(ns, group, member)
    \/ \E ns \in NS, group \in Groups : get_members(ns, group)

SpecGroupBytes == Init /\ [][GroupBytesNext]_vars

\* Searching the keys of one namespace with patterns of every documented
\* form.
FindPatterns ==
    {<<"*">>, <<"?">>, <<"k", "*">>, <<"[", "j", "k", "]">>,
     <<"[", "j", "-", "k", "]">>, <<"[", "^", "k", "]">>,
     <<"[", "!", "k", "]">>, <<"\\", "k">>, <<"[", "^", "k", "]", "*">>}

FindStoredKeys == {<<"k">>, <<"j">>, <<"k", "j">>}

FindNext ==
    \/ \E ns \in EventNS,
          data_map \in UNION {[S -> Values] : S \in SUBSET FindStoredKeys \ {{}}} :
          set(ns, data_map)
    \/ \E ns \in EventNS, ks \in SUBSET FindStoredKeys \ {{}} : remove(ns, ks)
    \/ \E ns \in EventNS, key_pattern \in FindPatterns : find_keys(ns, key_pattern)

SpecFind == Init /\ [][FindNext]_vars

\* list(keys) of a keys argument that is a str: its characters
list(str) == {<<str[i]>> : i \in DOMAIN str}

\* get and remove called with a str as their keys argument
get_str(ns, key) == get(ns, list(key))

remove_str(ns, key) == remove(ns, list(key))

\* Keys of one and of two characters, read and removed one at a time.
StrKeys == {<<"k">>, <<"j">>, <<"k", "j">>}

StrKeyNext ==
    \/ \E ns \in EventNS,
          data_map \in UNION {[S -> Values] : S \in SUBSET StrKeys \ {{}}} :
          set(ns, data_map)
    \/ \E ns \in EventNS, key \in StrKeys : get_str(ns, key)
    \/ \E ns \in EventNS, key \in StrKeys : remove_str(ns, key)

SpecStrKey == Init /\ [][StrKeyNext]_vars

(***************************************************************************)
(* Lock resources.  FakeDictBackendLock keeps a flag per handle;           *)
(* RedisBackendLock wraps redis.lock.Lock, which holds the lock as a key   *)
(* of the server with the handle's token as value and the expiration as    *)
(* time to live.                                                           *)
(***************************************************************************)
\* the value a lock call returned, kept with its kind: the bool of acquire,
\* the number of get_validity_time, or None
LockValue(op, err, ret) ==
    IF err = "" /\ op = "acquire" THEN [bool |-> ret]
    ELSE IF err = "" /\ op = "get_validity_time" THEN [int |-> ret]
    ELSE [none |-> None]

LockOutcome(h, l, key, op, err, ret) ==
    /\ lock_handle' = [lock_handle EXCEPT ![h] = l]
    /\ lock_key' = key
    /\ lock_result' = [lock_result EXCEPT ![h] = LockCall(op, err)]
    /\ lock_returned' = [lock_returned EXCEPT ![h] = LockValue(op, err, ret)]

\* RedisBackend.get_redis_connection: the endpoint of the namespace
get_redis_connection(ns) == getClient(ns)

\* the namespace of the lock resource the handles are made for
LockNS == <<"a">>

\* the handle keeps, in `redis`, the endpoint its Lock object is bound to
\* (0 on the fake backend, which has none)
get_lock_resource(h, expiration) ==
    /\ ~lock_handle[h].created
    /\ lock_handle' = [lock_handle EXCEPT ![h] =
                          [NoHandle EXCEPT !.created = TRUE,
                                           !.expiration = expiration,
                                           !.redis = IF Fake THEN 0
                                                     ELSE get_redis_connection(LockNS)]]
    /\ UNCHANGED <<lock_key, next_token, lock_result, lock_returned>>

\* faulty variant: a handle that holds the lock acquires it again
FakeAcquireReentrant(l) ==
    [lock |-> [l EXCEPT !.locked = TRUE], ret |-> TRUE]

FakeAcquire(l) ==
    IF l.locked THEN [lock |-> l, ret |-> FALSE]
    ELSE [lock |-> [l EXCEPT !.locked = TRUE], ret |-> TRUE]

\* Lock.do_acquire: SET name token NX PX timeout
do_acquire(key, token, timeout) ==
    IF key.token = 0 THEN [key |-> [token |-> token, pttl |-> timeout], ok |-> TRUE]
    ELSE [key |-> key, ok |-> FALSE]

\* faulty variant: a failed attempt is repeated whatever time has passed
RedisAcquireAttemptForever(h, token, left) ==
    LET l == lock_handle[h]
        r == do_acquire(lock_key, token, l.expiration)
    IN  IF r.ok
        THEN LockOutcome(h, [l EXCEPT !.token = token, !.acquiring = 0,
                                      !.retries = 0],
                         r.key, "acquire", "", TRUE)
        ELSE /\ lock_handle' = [lock_handle EXCEPT ![h] =
                                  [l EXCEPT !.acquiring = token]]
             /\ UNCHANGED <<lock_key, lock_result, lock_returned>>

\* one attempt of Lock.acquire by handle h with `token`, `left` retries left
RedisAcquireAttempt(h, token, left) ==
    LET l == lock_handle[h]
        r == do_acquire(lock_key, token, l.expiration)
    IN  IF r.ok
        THEN LockOutcome(h, [l EXCEPT !.token = token, !.acquiring = 0,
                                      !.retries = 0],
                         r.key, "acquire", "", TRUE)
        ELSE IF left = 0
             THEN LockOutcome(h, [l EXCEPT !.acquiring = 0, !.retries = 0],
                              lock_key, "acquire", "", FALSE)
        ELSE /\ lock_handle' = [lock_handle EXCEPT ![h] =
                                  [l EXCEPT !.acquiring = token,
                                            !.retries = left - 1]]
             /\ UNCHANGED <<lock_key, lock_result, lock_returned>>

lock_acquire(h, retries) ==
    /\ lock_handle[h].created
    /\ lock_handle[h].acquiring = 0
    /\ IF Fake
       THEN LET r == FakeAcquire(lock_handle[h])
            IN  /\ LockOutcome(h, r.lock, lock_key, "acquire", "", r.ret)
                /\ UNCHANGED next_token
       ELSE /\ next_token < MaxTokens
            /\ next_token' = next_token + 1
            /\ RedisAcquireAttempt(h, next_token + 1, retries)

\* Lock.acquire after its sleep: the next attempt
lock_acquire_retry(h) ==
    /\ lock_handle[h].acquiring # 0
    /\ RedisAcquireAttempt(h, lock_handle[h].acquiring, lock_handle[h].retries)
    /\ UNCHANGED next_token

FakeRelease(l) == [l EXCEPT !.locked = FALSE]

\* faulty variant: the Redis lock key is deleted whatever token it holds
lock_release_any_token(h) ==
    LET l == lock_handle[h]
    IN  /\ l.created
        /\ l.acquiring = 0
        /\ IF Fake
           THEN LockOutcome(h, FakeRelease(l), lock_key, "release", "", None)
           ELSE LockOutcome(h, [l EXCEPT !.token = 0], NoKey, "release", "", None)
        /\ UNCHANGED next_token

lock_release(h) ==
    LET l == lock_handle[h]
    IN  /\ l.created
        /\ l.acquiring = 0
        /\ IF Fake
           THEN LockOutcome(h, FakeRelease(l), lock_key, "release", "", None)
           ELSE IF l.token = 0
                THEN LockOutcome(h, l, lock_key, "release", "BackendError", None)
           ELSE IF lock_key.token # l.token
                THEN LockOutcome(h, [l EXCEPT !.token = 0], lock_key,
                                 "release", "BackendError", None)
           ELSE LockOutcome(h, [l EXCEPT !.token = 0], NoKey, "release", "", None)
        /\ UNCHANGED next_token

lock_refresh(h) ==
    LET l == lock_handle[h]
    IN  /\ l.created
        /\ l.acquiring = 0
        /\ IF Fake
           THEN LockOutcome(h, l, lock_key, "refresh", "", None)
           ELSE IF l.token = 0 \/ lock_key.token # l.token
                THEN LockOutcome(h, l, lock_key, "refresh", "BackendError", None)
           ELSE LockOutcome(h, l, [lock_key EXCEPT !.pttl = l.expiration],
                            "refresh", "", None)
        /\ UNCHANGED next_token

\* LUA_GET_VALIDITY_TIME_SCRIPT
lua_get_validity_time(key, token) ==
    IF key.token = 0 THEN -10
    ELSE IF key.token # token THEN -11
    ELSE key.pttl

FakeGetValidityTime(l) == l.expiration

RedisGetValidityTime(l) ==
    IF l.token = 0 THEN [err |-> "RejectedByBackend", ret |-> None]
    ELSE LET validity == lua_get_validity_time(lock_key, l.token)
         IN  IF validity < 0 THEN [err |-> "RejectedByBackend", ret |-> None]
             ELSE [err |-> "", ret |-> validity]

lock_get_validity_time(h) ==
    LET l == lock_handle[h]
    IN  /\ l.created
        /\ l.acquiring = 0
        /\ IF Fake
           THEN LockOutcome(h, l, lock_key, "get_validity_time", "",
                            FakeGetValidityTime(l))
           ELSE LET r == RedisGetValidityTime(l)
                IN  LockOutcome(h, l, lock_key, "get_validity_time", r.err, r.ret)
        /\ UNCHANGED next_token

\* time passes on the server: the lock key expires when its time to live ends
lock_tick ==
    /\ lock_key.token # 0
    /\ lock_key' = IF lock_key.pttl = 1 THEN NoKey
                   ELSE [lock_key EXCEPT !.pttl = @ - 1]
    /\ UNCHANGED <<lock_handle, next_token, lock_result, lock_returned>>

appvars == <<db_type, clients, next_client_event, db, queue, channel_cbs,
             listen_thread, run_in_thread, server, result, returned, pending,
             delivered, started, polled, in_callback, thread_call>>

\* what a call on a lock handle leaves unchanged
kvvars == <<appvars, with_block>>

LockNext ==
    \/ \E h \in Handles, expiration \in 1..MaxExpiration :
          get_lock_resource(h, expiration) /\ UNCHANGED kvvars
    \/ \E h \in Handles, retries \in 0..MaxRetries :
          lock_acquire(h, retries) /\ UNCHANGED kvvars
    \/ \E h \in Handles : lock_acquire_retry(h) /\ UNCHANGED kvvars
    \/ \E h \in Handles : lock_release(h) /\ UNCHANGED kvvars
    \/ \E h \in Handles : lock_refresh(h) /\ UNCHANGED kvvars
    \/ \E h \in Handles : lock_get_validity_time(h) /\ UNCHANGED kvvars
    \/ lock_tick /\ UNCHANGED kvvars

SpecLock == Init /\ [][LockNext]_vars

\* Acquiring, waiting, releasing and expiry.
LockWaitNext ==
    \/ \E h \in Handles, expiration \in 1..MaxExpiration :
          get_lock_resource(h, expiration) /\ UNCHANGED kvvars
    \/ \E h \in Handles, retries \in 0..MaxRetries :
          lock_acquire(h, retries) /\ UNCHANGED kvvars
    \/ \E h \in Handles : lock_acquire_retry(h) /\ UNCHANGED kvvars
    \/ \E h \in Handles : lock_release(h) /\ UNCHANGED kvvars
    \/ lock_tick /\ UNCHANGED kvvars

\* The thread inside Lock.acquire sleeps for retry_interval and then runs
\* again: a retry that is due is made (every retry changes lock_handle).
\* Nothing is assumed of the other calls, nor of the passing of the lock's
\* time to live.
SpecLockLive ==
    /\ Init
    /\ [][LockWaitNext]_vars
    /\ \A h \in Handles :
          WF_lock_handle(lock_acquire_retry(h) /\ UNCHANGED kvvars)

(***************************************************************************)
(* _Configuration: the address and port lists read from the environment    *)
(* and their completion.                                                   *)
(***************************************************************************)
\* the lists of at most n entries of S
ListsUpTo(S, n) == UNION {[1..k -> S] : k \in 0..n}

Hosts == {"", "h1"}
AddrLists == ListsUpTo({"h1", "h2"}, MaxAddrs)
PortLists == ListsUpTo({"p1", "p2"}, MaxPorts)
SentinelPortLists == ListsUpTo({"s1", "s2"}, MaxPorts)
SentinelNameLists == ListsUpTo({"m1"}, MaxPorts)

\* for i in range(len(l), n): l.append(l[i - 1])
RECURSIVE AppendLast(_, _)
AppendLast(l, n) ==
    IF Len(l) >= n THEN l ELSE AppendLast(Append(l, l[Len(l)]), n)

\* faulty variant: repeats the first entry
RECURSIVE AppendFirst(_, _)
AppendFirst(l, n) ==
    IF Len(l) >= n THEN l ELSE AppendFirst(Append(l, l[1]), n)

complete_configuration_first(addrs, ports, sentinel_ports, sentinel_names) ==
    IF Len(sentinel_ports) = 0
    THEN [addrs |-> addrs,
          ports |-> IF Len(addrs) > Len(ports) /\ Len(ports) > 0
                    THEN AppendFirst(ports, Len(addrs)) ELSE ports,
          sentinel_ports |-> sentinel_ports,
          sentinel_names |-> sentinel_names]
    ELSE [addrs |-> addrs,
          ports |-> ports,
          sentinel_ports |-> IF Len(addrs) > Len(sentinel_ports)
                             THEN AppendFirst(sentinel_ports, Len(addrs))
                             ELSE sentinel_ports,
          sentinel_names |-> IF Len(addrs) > Len(sentinel_names)
                                /\ Len(sentinel_names) > 0
                             THEN AppendFirst(sentinel_names, Len(addrs))
                             ELSE sentinel_names]

complete_configuration(addrs, ports, sentinel_ports, sentinel_names) ==
    IF Len(sentinel_ports) = 0
    THEN [addrs |-> addrs,
          ports |-> IF Len(addrs) > Len(ports) /\ Len(ports) > 0
                    THEN AppendLast(ports, Len(addrs)) ELSE ports,
          sentinel_ports |-> sentinel_ports,
          sentinel_names |-> sentinel_names]
    ELSE [addrs |-> addrs,
          ports |-> ports,
          sentinel_ports |-> IF Len(addrs) > Len(sentinel_ports)
                             THEN AppendLast(sentinel_ports, Len(addrs))
                             ELSE sentinel_ports,
          sentinel_names |-> IF Len(addrs) > Len(sentinel_names)
                                /\ Len(sentinel_names) > 0
                             THEN AppendLast(sentinel_names, Len(addrs))
                             ELSE sentinel_names]

\* RedisBackend.__create_redis_clients: per address, the port, sentinel
\* port and master name its client is made with ("" where a list is short)
create_redis_clients(params) ==
    [i \in DOMAIN params.addrs |->
        [addr |-> params.addrs[i],
         port |-> IF i <= Len(params.ports) THEN params.ports[i] ELSE "",
         sport |-> IF i <= Len(params.sentinel_ports)
                   THEN params.sentinel_ports[i] ELSE "",
         name |-> IF i <= Len(params.sentinel_names)
                  THEN params.sentinel_names[i] ELSE ""]]

\* _Configuration._read_configuration with the environment given: host is
\* DBAAS_SERVICE_HOST and the lists are the comma-separated variables.  The
\* call records the lists handed to _complete_configuration and returns
\* the completed ones.
read_configuration(host, addr_env, ports, sentinel_ports, sentinel_names) ==
    LET addrs == IF Len(addr_env) = 0 /\ host # "" THEN <<host>> ELSE addr_env
    IN  /\ Ready
        /\ result' = Call("_read_configuration", "",
                          <<addrs, ports, sentinel_ports, sentinel_names>>)
        /\ returned' = complete_configuration(addrs, ports, sentinel_ports,
                                              sentinel_names)
        /\ UNCHANGED <<started, polled, in_callback, stepvars, lockvars>>
        /\ UNCHANGED <<db_type, clients, next_client_event, db, queue,
                       channel_cbs, listen_thread, run_in_thread, server,
                       pending, delivered>>

\* _Configuration.__init__ reads the configuration once, when the storage
\* object is made and before any other call
ConfigNext ==
    /\ result.op = "none"
    /\ \E host \in Hosts, addr_env \in AddrLists, ports \in PortLists,
          sentinel_ports \in SentinelPortLists,
          sentinel_names \in SentinelNameLists :
          read_configuration(host, addr_env, ports, sentinel_ports, sentinel_names)

SpecConfig == Init /\ [][ConfigNext]_vars

\* _lock_status_to_string of handle h: FakeDictBackendLock tells its flag,
\* RedisBackendLock asks Lock.locked() (the key exists) and Lock.owned()
\* (the key holds the handle's token)
lock_status_to_string(h) ==
    IF Fake
    THEN IF lock_handle[h].locked THEN "locked" ELSE "unlocked"
    ELSE IF lock_key.token # 0
         THEN IF lock_handle[h].token # 0 /\ lock_key.token = lock_handle[h].token
              THEN "locked" ELSE "locked by someone else"
    ELSE "unlocked"

\* Locks that are acquired and then left alone: no release, no refresh.
LapseNext ==
    \/ \E h \in Handles, expiration \in 1..MaxExpiration :
          get_lock_resource(h, expiration) /\ UNCHANGED kvvars
    \/ \E h \in Handles, retries \in 0..MaxRetries :
          lock_acquire(h, retries) /\ UNCHANGED kvvars
    \/ \E h \in Handles : lock_acquire_retry(h) /\ UNCHANGED kvvars
    \/ \E h \in Handles : lock_get_validity_time(h) /\ UNCHANGED kvvars
    \/ lock_tick /\ UNCHANGED kvvars

\* Time passes: the server counts down the time to live of a key it holds.
SpecLapse ==
    /\ Init
    /\ [][LapseNext]_vars
    /\ WF_lock_key(lock_tick /\ UNCHANGED kvvars)

\* Operations of every kind under two namespaces, with one or several
\* endpoints: keys, groups, write and publish, subscriptions and the making
\* of a lock handle.
RouteValues == {"v1"}

RouteChannels == {<<"c">>}

\* the lock handle that is made; its Lock object, and with it every lock
\* operation of the handle, stays on the endpoint it is bound to here
RouteHandle == 1

RouteInit == Init /\ ~Fake

RouteNext ==
    \/ \E ns \in NS, data_map \in [EventKeys -> RouteValues] : set(ns, data_map)
    \/ \E ns \in NS : remove(ns, EventKeys)
    \/ \E ns \in NS : get(ns, EventKeys)
    \/ \E ns \in NS, group \in Groups : add_member(ns, group, RouteValues)
    \/ \E ns \in NS, group \in Groups : get_members(ns, group)
    \/ \E ns \in NS, channel \in RouteChannels,
          data_map \in [EventKeys -> RouteValues] :
          set_and_publish(ns, << <<channel, [str |-> EventOf(ns)]>> >>, data_map)
    \/ \E ns \in NS, cb \in Callbacks : subscribe_channel(ns, cb, RouteChannels)
    \/ \E ns \in NS : unsubscribe_channel(ns, RouteChannels)
    \/ get_lock_resource(RouteHandle, MaxExpiration) /\ UNCHANGED kvvars

SpecRoute == RouteInit /\ [][RouteNext]_vars

(***************************************************************************)
(* Worker threads calling one backend.  A call of FakeDictBackend is       *)
(* executed line by line, and another thread can run between two lines;    *)
(* `line` is the source line the thread executes next.  A call of          *)
(* RedisBackend is one command evaluated by the server.                    *)
(***************************************************************************)
ThreadNS == <<"a">>
ThreadKeys == {<<"k">>}

ThreadCall(op, line, key, old_data, new_data, ret) ==
    [op |-> op, line |-> line, key |-> key, old_data |-> old_data,
     new_data |-> new_data, ret |-> ret]

\* the thread returns ret (or raises it) from the call it is inside
ThreadReturn(t, ret) ==
    [thread_call EXCEPT ![t] = [@ EXCEPT !.line = 0, !.ret = ret]]

ThreadGoto(t, line) ==
    [thread_call EXCEPT ![t] = [@ EXCEPT !.line = line]]

BoolStr(b) == IF b THEN "True" ELSE "False"

threadvars == <<db_type, clients, next_client_event, queue, channel_cbs,
                listen_thread, run_in_thread, result, returned, pending,
                delivered, started, polled, in_callback, with_block,
                lockvars>>

\* a thread calls set(ns, {key: data}): dict.update is one step
thread_set(t, key, data) ==
    /\ thread_call[t].line = 0
    /\ LET r == IF Fake THEN FakeSet(ThreadNS, key :> data)
                ELSE RedisSet(ThreadNS, key :> data)
       IN  /\ db' = r.db
           /\ server' = r.server
    /\ thread_call' = [thread_call EXCEPT ![t] =
                          ThreadCall("set", 0, key, "", data, "None")]
    /\ UNCHANGED threadvars

\* a thread calls remove(ns, [key]): dict.pop is one step
thread_remove(t, key) ==
    /\ thread_call[t].line = 0
    /\ LET r == IF Fake THEN FakeRemove(ThreadNS, {key})
                ELSE RedisRemove(ThreadNS, {key})
       IN  /\ db' = r.db
           /\ server' = r.server
    /\ thread_call' = [thread_call EXCEPT ![t] =
                          ThreadCall("remove", 0, key, "", "", "None")]
    /\ UNCHANGED threadvars

\* a thread calls set_if: FakeDictBackend.set_if line 71,
\* `if key not in self._db: return False`; RedisBackend.set_if whole
thread_set_if(t, key, old_data, new_data) ==
    /\ thread_call[t].line = 0
    /\ IF Fake
       THEN /\ thread_call' = [thread_call EXCEPT ![t] =
                  IF key \notin DOMAIN db
                  THEN ThreadCall("set_if", 0, key, old_data, new_data, "False")
                  ELSE ThreadCall("set_if", 73, key, old_data, new_data, "none")]
            /\ UNCHANGED <<db, server>>
       ELSE LET r == RedisSetIf(ThreadNS, key, old_data, new_data)
            IN  /\ server' = r.server
                /\ thread_call' = [thread_call EXCEPT ![t] =
                      ThreadCall("set_if", 0, key, old_data, new_data,
                                 BoolStr(r.ret))]
                /\ UNCHANGED db
    /\ UNCHANGED threadvars

\* lines 73-74: `db_data = self._db[key]`, `if db_data == old_data:`
thread_set_if_73(t) ==
    /\ thread_call[t].op = "set_if"
    /\ thread_call[t].line = 73
    /\ LET c == thread_call[t]
       IN  thread_call' =
              IF c.key \notin DOMAIN db THEN ThreadReturn(t, "KeyError")
              ELSE IF db[c.key] = c.old_data THEN ThreadGoto(t, 75)
              ELSE ThreadReturn(t, "False")
    /\ UNCHANGED <<db, server>>
    /\ UNCHANGED threadvars

\* lines 75-76: `self._db[key] = new_data`, `return True`
thread_set_if_75(t) ==
    /\ thread_call[t].op = "set_if"
    /\ thread_call[t].line = 75
    /\ db' = DictUpdate(db, thread_call[t].key :> thread_call[t].new_data)
    /\ thread_call' = ThreadReturn(t, "True")
    /\ UNCHANGED server
    /\ UNCHANGED threadvars

\* a thread calls set_if_not_exists: FakeDictBackend.set_if_not_exists line
\* 80, `if key not in self._db:`; RedisBackend.set_if_not_exists whole
thread_set_if_not_exists(t, key, data) ==
    /\ thread_call[t].line = 0
    /\ IF Fake
       THEN /\ thread_call' = [thread_call EXCEPT ![t] =
                  IF key \notin DOMAIN db
                  THEN ThreadCall("set_if_not_exists", 81, key, "", data, "none")
                  ELSE ThreadCall("set_if_not_exists", 0, key, "", data,
                                  "False")]
            /\ UNCHANGED <<db, server>>
       ELSE LET r == RedisSetIfNotExists(ThreadNS, key, data)
            IN  /\ server' = r.server
                /\ thread_call' = [thread_call EXCEPT ![t] =
                      ThreadCall("set_if_not_exists", 0, key, "", data,
                                 BoolStr(r.ret))]
                /\ UNCHANGED db
    /\ UNCHANGED threadvars

\* lines 81-82: `self._db[key] = data`, `return True`
thread_set_if_not_exists_81(t) ==
    /\ thread_call[t].op = "set_if_not_exists"
    /\ thread_call[t].line = 81
    /\ db' = DictUpdate(db, thread_call[t].key :> thread_call[t].new_data)
    /\ thread_call' = ThreadReturn(t, "True")
    /\ UNCHANGED server
    /\ UNCHANGED threadvars

\* a thread calls remove_if: FakeDictBackend.remove_if line 111,
\* `if key in self._db:`; RedisBackend.remove_if whole
thread_remove_if(t, key, data) ==
    /\ thread_call[t].line = 0
    /\ IF Fake
       THEN /\ thread_call' = [thread_call EXCEPT ![t] =
                  IF key \in DOMAIN db
                  THEN ThreadCall("remove_if", 112, key, data, "", "none")
                  ELSE ThreadCall("remove_if", 0, key, data, "", "False")]
            /\ UNCHANGED <<db, server>>
       ELSE LET r == RedisRemoveIf(ThreadNS, key, data)
            IN  /\ server' = r.server
                /\ thread_call' = [thread_call EXCEPT ![t] =
                      ThreadCall("remove_if", 0, key, data, "", BoolStr(r.ret))]
                /\ UNCHANGED db
    /\ UNCHANGED threadvars

\* lines 112-113: `db_data = self._db[key]`, `if db_data == data:`
thread_remove_if_112(t) ==
    /\ thread_call[t].op = "remove_if"
    /\ thread_call[t].line = 112
    /\ LET c == thread_call[t]
       IN  thread_call' =
              IF c.key \notin DOMAIN db THEN ThreadReturn(t, "KeyError")
              ELSE IF db[c.key] = c.old_data THEN ThreadGoto(t, 114)
              ELSE ThreadReturn(t, "False")
    /\ UNCHANGED <<db, server>>
    /\ UNCHANGED threadvars

\* lines 114-115: `self._db.pop(key)`, `return True`
thread_remove_if_114(t) ==
    /\ thread_call[t].op = "remove_if"
    /\ thread_call[t].line = 114
    /\ LET c == thread_call[t]
       IN  IF c.key \in DOMAIN db
           THEN /\ db' = DictPop(db, {c.key})
                /\ thread_call' = ThreadReturn(t, "True")
           ELSE /\ db' = db
                /\ thread_call' = ThreadReturn(t, "KeyError")
    /\ UNCHANGED server
    /\ UNCHANGED threadvars

ThreadNext ==
    \E t \in Threads :
       \/ \E key \in ThreadKeys, data \in Values : thread_set(t, key, data)
       \/ \E key \in ThreadKeys : thread_remove(t, key)
       \/ \E key \in ThreadKeys, old_data \in Values, new_data \in Values :
             thread_set_if(t, key, old_data, new_data)
       \/ thread_set_if_73(t)
       \/ thread_set_if_75(t)
       \/ \E key \in ThreadKeys, data \in Values :
             thread_set_if_not_exists(t, key, data)
       \/ thread_set_if_not_exists_81(t)
       \/ \E key \in ThreadKeys, data \in Values : thread_remove_if(t, key, data)
       \/ thread_remove_if_112(t)
       \/ thread_remove_if_114(t)

SpecThreads == Init /\ [][ThreadNext]_vars

\* Managed-loop delivery: the application subscribes, starts the listener
\* and publishes numbered events, and never calls handle_events().  The
\* event-loop threads (FakeDictBackend._listen, the thread of
\* PubSub.run_in_thread) loop for ever and a put that finds room goes on,
\* so each of these steps is taken if it stays possible.
ManagedNext ==
    \/ \E ns \in EventNS, channel \in Channels,
          data_map \in [EventKeys -> Values] :
          publish_next_event(ns, channel, data_map)
    \/ publish_put
    \/ \E ns \in EventNS, cb \in Callbacks, channels \in ChannelSets :
          subscribe_channel(ns, cb, channels)
    \/ start_event_listener
    \/ listen
    \/ \E i \in 1..MaxClients : i <= Len(clients) /\ pubsub_thread_run(i)

SpecManaged ==
    /\ Init
    /\ [][ManagedNext]_vars
    /\ WF_queue(publish_put)
    /\ WF_queue(listen)
    /\ \A i \in 1..MaxClients :
          WF_clients(i <= Len(clients) /\ pubsub_thread_run(i))

\* Write+publish calls of one application thread in either delivery mode:
\* the thread polls with handle_events() between its calls or starts the
\* listener.  A put that finds room goes on and the listener thread loops
\* for ever.
ReturnNext ==
    \/ PublishWrite(EventNS, EventKeys)
    \/ publish_put
    \/ \E ns \in EventNS, cb \in Callbacks, channels \in ChannelSets :
          subscribe_channel(ns, cb, channels)
    \/ start_event_listener
    \/ Ready /\ handle_events
    \/ listen
    \/ \E i \in 1..MaxClients : i <= Len(clients) /\ pubsub_thread_run(i)

SpecReturn ==
    /\ Init
    /\ [][ReturnNext]_vars
    /\ WF_queue(publish_put)
    /\ WF_queue(listen)

\* An application that subscribes to and unsubscribes from one channel and
\* marks each event it publishes: "u" if its unsubscribe_channel call has
\* returned and it has not subscribed again, "s" otherwise.  It does not
\* subscribe again while an event marked "u" waits in the queue.
UnsubChannel == <<"c">>

Unsubscribed(ns, channel) ==
    \/ result.op = "unsubscribe_channel"
    \/ IF Fake THEN channel \notin DOMAIN channel_cbs
       ELSE add_key_ns_prefix(ns, channel)
               \notin ServerChannels(clients[getClientConn(ns)])

MarkedEvent(ns, channel) ==
    IF Unsubscribed(ns, channel) THEN <<"u">> ELSE <<"s">>

publish_marked_event(ns, channel, data_map) ==
    set_and_publish(ns, << <<channel, [str |-> MarkedEvent(ns, channel)]>> >>,
                    data_map)

UnsubNext ==
    \/ \E ns \in EventNS, data_map \in [EventKeys -> RouteValues] :
          publish_marked_event(ns, UnsubChannel, data_map)
    \/ publish_put
    \/ \E ns \in EventNS, cb \in Callbacks :
          /\ \A i \in DOMAIN (queue \o pending) :
                (queue \o pending)[i][2] # << <<"u">> >>
          /\ subscribe_channel(ns, cb, {UnsubChannel})
    \/ \E ns \in EventNS : unsubscribe_channel(ns, {UnsubChannel})
    \/ start_event_listener
    \/ handle_events
    \/ listen
    \/ \E i \in 1..MaxClients : i <= Len(clients) /\ pubsub_thread_run(i)

SpecUnsub == Init /\ [][UnsubNext]_vars

\* `with lock:` on a handle.  SyncLockAbc.__enter__ calls acquire() with its
\* default arguments, which waits and retries; if acquire() returns True the
\* body runs, otherwise RejectedByBackend is raised and neither the body nor
\* __exit__ runs.  __exit__ calls release(), whether the body ended normally
\* or raised.
EnterOutcome(acquiring, acquired) ==
    IF acquiring # 0 THEN "entering"
    ELSE IF acquired = [bool |-> TRUE] THEN "body"
    ELSE "rejected"

with_enter(h) ==
    /\ with_block[h] \in {"out", "rejected"}
    /\ lock_acquire(h, MaxRetries)
    /\ with_block' = [with_block EXCEPT ![h] =
                         EnterOutcome(lock_handle'[h].acquiring,
                                      lock_returned'[h])]
    /\ UNCHANGED appvars

\* acquire() inside __enter__ after its sleep
with_enter_retry(h) ==
    /\ with_block[h] = "entering"
    /\ lock_acquire_retry(h)
    /\ with_block' = [with_block EXCEPT ![h] =
                         EnterOutcome(lock_handle'[h].acquiring,
                                      lock_returned'[h])]
    /\ UNCHANGED appvars

\* a call on the handle in the body of the with statement
with_body(h) ==
    /\ with_block[h] = "body"
    /\ lock_get_validity_time(h) \/ lock_refresh(h)
    /\ UNCHANGED kvvars

\* faulty variant: the block is left without release()
with_exit_no_release(h) ==
    /\ with_block[h] = "body"
    /\ with_block' = [with_block EXCEPT ![h] = "out"]
    /\ lock_result' = [lock_result EXCEPT ![h] = LockCall("release", "")]
    /\ lock_returned' = [lock_returned EXCEPT ![h] = [none |-> None]]
    /\ UNCHANGED <<lock_handle, lock_key, next_token>>
    /\ UNCHANGED appvars

\* SyncLockAbc.__exit__ at the end of the body
with_exit(h) ==
    /\ with_block[h] = "body"
    /\ lock_release(h)
    /\ with_block' = [with_block EXCEPT ![h] = "out"]
    /\ UNCHANGED appvars

WithNext ==
    \/ \E h \in Handles, expiration \in 1..MaxExpiration :
          get_lock_resource(h, expiration) /\ UNCHANGED kvvars
    \/ \E h \in Handles : with_enter(h)
    \/ \E h \in Handles : with_enter_retry(h)
    \/ \E h \in Handles : with_body(h)
    \/ \E h \in Handles : with_exit(h)
    \/ lock_tick /\ UNCHANGED kvvars

SpecWith == Init /\ [][WithNext]_vars

(***************************************************************************)
(* Namespaces and keys with a comma or a brace in them, written to one     *)
(* Redis endpoint and searched for with the pattern "*".                   *)
(***************************************************************************)
WireNS == {<<"a">>, <<"a", ",", "b">>, <<"{", "a", "}">>}

WireKeys == {<<"k">>, <<"k", ",", "j">>, <<"{", "k", "}">>}

WireValues == {"v1"}

WireInit == Init /\ ~Fake /\ Len(clients) = 1

WireNext ==
    \/ \E ns \in WireNS, key \in WireKeys, data \in WireValues :
          set(ns, [k \in {key} |-> data])
    \/ \E ns \in WireNS, key \in WireKeys : remove(ns, {key})
    \/ \E ns \in WireNS : find_keys(ns, <<"*">>)

SpecWire == WireInit /\ [][WireNext]_vars

(***************************************************************************)
(* RedisBackend._prepare_channels called with channels-to-events maps of   *)
(* no, one and two channels, the event lists having no, one or two events. *)
(***************************************************************************)
PrepareEventLists == {<<>>, << <<"e">> >>, << <<"f">> >>, << <<"e">>, <<"f">> >>}

PrepareInputs ==
    {<<>>}
    \cup {<< <<c, l>> >> : c \in Channels, l \in PrepareEventLists}
    \cup {<< <<c, l>>, <<d, m>> >> :
             <<c, d>> \in {<<c, d>> \in Channels \X Channels : c # d},
             <<l, m>> \in PrepareEventLists \X PrepareEventLists}

\* one call of _prepare_channels: result keeps the arguments, returned the
\* tuple of the prepared list and the pair count
call_prepare_channels(ns, channels_and_events) ==
    /\ ~Fake
    /\ Do("_prepare_channels", <<ns, channels_and_events>>,
          [Same EXCEPT !.ret = prepare_channels(ns, channels_and_events)])

PrepareNext ==
    \E ns \in NS, channels_and_events \in PrepareInputs :
       call_prepare_channels(ns, channels_and_events)

SpecPrepare == Init /\ [][PrepareNext]_vars

\* handle h holds the lock: its acquire() returned True and since then it
\* has not released the lock, nor has the lock expired
Holds(h) ==
    IF Fake THEN lock_handle[h].locked
    ELSE lock_handle[h].token # 0 /\ lock_key.token = lock_handle[h].token

(***************************************************************************)
(* Properties.                                                             *)
(***************************************************************************)
\* key is stored under ns with the value data, as get(ns, {key}) tells
StoredIs(ns, key, data) ==
    LET got == BackendGet(ns, {key})
    IN  key \in DOMAIN got /\ got[key] = data

IsStored(ns, key) == key \in DOMAIN BackendGet(ns, {key})

\* C1: of two lock handles for the same (namespace, name), on either
\* backend, at most one holds the lock at any instant.
C1_LockExclusive ==
    \A h1 \in Handles, h2 \in Handles :
        h1 # h2 => ~(Holds(h1) /\ Holds(h2))

\* C2: set_if(ns, key, old, new) returns true and stores new exactly when
\* key is stored with a value equal to old; otherwise it returns false and
\* leaves the store unchanged.
C2_SetIf ==
    [][result'.op = "set_if" =>
          \A ns \in NS, key \in Keys, old_data \in Values, new_data \in Values :
             set_if(ns, key, old_data, new_data) =>
                IF StoredIs(ns, key, old_data)
                THEN returned' = TRUE /\ StoredIs(ns, key, new_data)'
                ELSE returned' = FALSE /\ UNCHANGED <<db, server>>]_vars

C2_Witness ==
    /\ result.op = "set_if"
    /\ returned = TRUE
    /\ StoredIs(result.args[1], result.args[2], result.args[4])

\* the notifications of `channel` under ns that wait for delivery
Queued(ns, channel) ==
    IF Fake
    THEN LET q == queue \o pending
         IN  Cardinality({i \in DOMAIN q : q[i][1] = channel})
    ELSE LET inbox == clients[getClientConn(ns)].inbox
         IN  Cardinality({i \in DOMAIN inbox :
                            /\ inbox[i].type = "message"
                            /\ inbox[i].channel = add_key_ns_prefix(ns, channel)})

\* some subscriber is there to queue a notification of `channel` for; the
\* in-memory backend queues every notification
HasSubscriber(ns, channel) ==
    \/ Fake
    \/ add_key_ns_prefix(ns, channel)
          \in ServerChannels(clients[getClientConn(ns)])

ChannelsOf(channels_and_events) ==
    {channels_and_events[i][1] : i \in DOMAIN channels_and_events}

\* the call that has just returned queued one notification for each of its
\* channels if it returned true, and queued nothing and wrote nothing if it
\* returned false
PublishedIfAndOnlyIfTrue(ns, channels_and_events) ==
    /\ returned' \in BOOLEAN
    /\ returned' =>
          \A c \in Channels :
             Queued(ns, c)' = Queued(ns, c)
                + (IF c \in ChannelsOf(channels_and_events) /\ HasSubscriber(ns, c)
                   THEN 1 ELSE 0)
    /\ ~returned' =>
          /\ \A c \in Channels : Queued(ns, c)' = Queued(ns, c)
          /\ UNCHANGED <<db, server>>

\* C3: set_if_and_publish, set_if_not_exists_and_publish and
\* remove_if_and_publish queue their channel events if and only if they
\* return true, which they do when the guarded write took effect; when the
\* guard fails they return false, publish nothing and leave the store as
\* it was.
C3_PublishOnSuccessOnly ==
    [][\A ns \in EventNS, ce \in ChannelsAndEventsInputs, key \in EventKeys,
          data \in Values :
          /\ result'.op = "set_if_and_publish" =>
                \A new_data \in Values :
                   set_if_and_publish(ns, ce, key, data, new_data) =>
                      /\ returned' = StoredIs(ns, key, data)
                      /\ PublishedIfAndOnlyIfTrue(ns, ce)
          /\ result'.op = "set_if_not_exists_and_publish" =>
                (set_if_not_exists_and_publish(ns, ce, key, data) =>
                   /\ returned' = ~IsStored(ns, key)
                   /\ PublishedIfAndOnlyIfTrue(ns, ce))
          /\ result'.op = "remove_if_and_publish" =>
                (remove_if_and_publish(ns, ce, key, data) =>
                   /\ returned' = StoredIs(ns, key, data)
                   /\ PublishedIfAndOnlyIfTrue(ns, ce))]_vars

C3_Witness ==
    /\ result.op = "set_if_and_publish"
    /\ returned = TRUE
    /\ \E ns \in EventNS, c \in Channels : Queued(ns, c) > 0

\* no event-loop thread runs
NoThreadAlive ==
    IF Fake THEN listen_thread # "alive"
    ELSE \A i \in DOMAIN clients : clients[i].pubsub_thread # "alive"

\* the instance is marked as delivering from its own thread
ManagedMode ==
    IF Fake THEN run_in_thread
    ELSE \A i \in DOMAIN clients : clients[i].run_in_thread

NoSubscription ==
    IF Fake THEN DOMAIN channel_cbs = {}
    ELSE \A i \in DOMAIN clients : DOMAIN clients[i].channels = {}

NotificationWaiting ==
    queue # <<>> \/ SumInbox(clients, Len(clients)) > 0

C5_StartAfterPollFails ==
    [][polled /\ result'.op = "start_event_listener" /\ start_event_listener =>
          result'.err # ""]_vars

\* C5: handle_events() having been used does not bar the managed loop: the
\* first start_event_listener() call after it raises nothing and puts the
\* instance in managed mode.
C5_StartAfterPollSucceeds ==
    [][(/\ polled
        /\ ~started
        /\ result'.op = "start_event_listener"
        /\ start_event_listener) => result'.err = "" /\ ManagedMode']_vars

C5_Witness ==
    /\ polled
    /\ started
    /\ result.op = "start_event_listener"
    /\ result.err = ""
    /\ ManagedMode

\* C6: a second start_event_listener() call on the same instance is an
\* error, whatever was subscribed and unsubscribed before and between the
\* two calls.
C6_SecondStartFails ==
    [][started /\ result'.op = "start_event_listener" /\ start_event_listener =>
          result'.err # ""]_vars

WriteUnder(ns) == PlainWrite({ns}, Keys) \/ PublishWrite({ns}, Keys)

\* C8: no write or remove operation under a namespace ns1 changes what
\* get(ns2, {k}) or find_keys(ns2, "*") return for another namespace ns2.
C8_NamespaceScoped ==
    [][\A ns1 \in NS, ns2 \in NS :
          ns1 # ns2 /\ WriteUnder(ns1) =>
             /\ \A k \in Keys : BackendGet(ns2, {k})' = BackendGet(ns2, {k})
             /\ BackendFindKeys(ns2, <<"*">>)' = BackendFindKeys(ns2, <<"*">>)]_vars

\* C9: set_if_not_exists(ns, key, v) returns true and stores v exactly when
\* key is absent; while the key exists it returns false and leaves the
\* stored value unchanged.
C9_SetIfNotExists ==
    [][result'.op = "set_if_not_exists" =>
          \A ns \in NS, key \in Keys, data \in Values :
             set_if_not_exists(ns, key, data) =>
                IF ~IsStored(ns, key)
                THEN returned' = TRUE /\ StoredIs(ns, key, data)'
                ELSE returned' = FALSE /\ UNCHANGED <<db, server>>]_vars

C9_Witness ==
    /\ result.op = "set_if_not_exists"
    /\ returned = FALSE
    /\ \E ns \in NS, key \in Keys : IsStored(ns, key)

\* what set_if with the arguments args returns in the current state
SetIfReturns(args) ==
    (IF Fake THEN FakeSetIf(args[1], args[2], args[3], args[4])
     ELSE RedisSetIf(args[1], args[2], args[3], args[4])).ret

\* C10 as the claim has it: for all key, old and new, right after a
\* set_if(ns, key, old, new) call that returned true the identical call
\* returns false.
C10_RepeatedSetIfFails ==
    (result.op = "set_if" /\ returned = TRUE) => ~SetIfReturns(result.args)

\* C10: for all key, old and new with old different from new, right after
\* a set_if(ns, key, old, new) call that returned true the identical call
\* returns false.
C10_RepeatedSetIfFailsWhenChanged ==
    (/\ result.op = "set_if"
     /\ returned = TRUE
     /\ result.args[3] # result.args[4]) => ~SetIfReturns(result.args)

C10_Witness ==
    /\ result.op = "set_if"
    /\ returned = TRUE
    /\ result.args[3] # result.args[4]

\* C11: get_validity_time() on a handle that does not hold the lock (never
\* acquired, released, or lapsed) fails with RejectedByBackend and returns
\* no duration, on either backend.
C11_ValidityTimeOfNonHolderRejected ==
    [][\A h \in Handles :
          (/\ ~Holds(h)
           /\ lock_result'[h].op = "get_validity_time"
           /\ lock_get_validity_time(h)) =>
             /\ lock_result'[h].err = "RejectedByBackend"
             /\ lock_returned'[h] = [none |-> None]]_vars

\* the validity that is left to the holder h
Validity(h) == IF Fake THEN lock_handle[h].expiration ELSE lock_key.pttl

\* C12: release() and refresh() on a handle that does not hold the lock
\* neither clear the lock nor extend it: a handle that holds the lock
\* still holds it, with the validity it had.
C12_ReleaseRefreshOnlyByHolder ==
    [][\A h \in Handles :
          (/\ ~Holds(h)
           /\ lock_result'[h].op \in {"release", "refresh"}
           /\ (lock_release(h) \/ lock_refresh(h))) =>
             \A h2 \in Handles \ {h} :
                Holds(h2) => Holds(h2)' /\ Validity(h2)' = Validity(h2)]_vars

C12_Witness ==
    \E h \in Handles, h2 \in Handles :
       /\ h # h2
       /\ lock_result[h].op \in {"release", "refresh"}
       /\ lock_result[h].err = "BackendError"
       /\ Holds(h2)

\* a step in which acquire() on handle h returns
AcquireReturns(h) ==
    /\ lock_result'[h].op = "acquire"
    /\ lock_handle'[h].acquiring = 0
    /\ \/ \E retries \in 0..MaxRetries : lock_acquire(h, retries)
       \/ lock_acquire_retry(h)

\* C13: acquire() on a handle that holds the lock, the lock not having
\* expired when the call gives up, returns false and leaves the handle
\* holding the lock.
C13_NotReentrant ==
    [][\A h \in Handles :
          Holds(h) /\ AcquireReturns(h) =>
             lock_returned'[h] = [bool |-> FALSE] /\ Holds(h)']_vars

C13_Witness ==
    \E h \in Handles :
       /\ lock_result[h].op = "acquire"
       /\ lock_returned[h] = [bool |-> FALSE]
       /\ Holds(h)

\* C14: the events published to one channel by successive calls reach the
\* channel's callback in the order they were published, each at most once,
\* whether the event loop or handle_events() delivers them.
C14_DeliveredInPublishOrder ==
    \A i \in DOMAIN delivered, j \in DOMAIN delivered :
       i < j /\ delivered[i][1] = delivered[j][1] =>
          EventNumber(delivered[i][2][1]) < EventNumber(delivered[j][2][1])

\* two events of one channel delivered, handle_events() having polled and
\* the event loop having been started
C14_Witness ==
    \E i \in DOMAIN delivered, j \in DOMAIN delivered :
       /\ i < j
       /\ delivered[i][1] = delivered[j][1]
       /\ polled
       /\ started

\* C15: on each backend connection at most one callback invocation is in
\* progress at any instant, also when a callback calls handle_events() or
\* a write-and-publish operation.
C15_OneCallbackInProgress ==
    \A n \in DOMAIN in_callback, k \in DOMAIN in_callback :
       in_callback[n].conn = in_callback[k].conn => n = k

\* what the callbacks of namespace ns are to be called with for the
\* notifications that wait, oldest first
ToDeliver(ns) ==
    IF Fake THEN queue \o pending
    ELSE LET conn == clients[getClientConn(ns)]
         IN  [n \in DOMAIN conn.inbox |->
                 handle_message(conn, conn.inbox[n]).ret]

\* C16: for every list of events the facade accepts (no event contains
\* "___"), the subscriber's callback is called with exactly the list that
\* was published: joining the events with "___" and splitting the result
\* gives the list back.
C16_EventsRoundTrip ==
    [][result'.op = "set_and_publish" /\ result'.err = "" =>
          \A ns \in EventNS, events \in EventLists,
             data_map \in [EventKeys -> Values] :
             (/\ HasSubscriber(ns, <<"c">>)
              /\ set_and_publish(ns, << << <<"c">>, [list |-> events] >> >>,
                                 data_map)) =>
                ToDeliver(ns)' = ToDeliver(ns) \o << << <<"c">>, events >> >>]_vars

\* C17: a facade call rejected with SdlTypeError (an argument of a wrong
\* type, an event containing "___") has issued no backend operation: the
\* stored data and the notifications that wait are unchanged.
C17_RejectedCallChangesNothing ==
    [][result'.err = "SdlTypeError" =>
          UNCHANGED <<db, server, clients, queue, pending, delivered>>]_vars

C17_Witness ==
    /\ result.err = "SdlTypeError"
    /\ result.op = "set_and_publish"
    /\ \E ns \in EventNS, key \in EventKeys : IsStored(ns, key)

\* the exceptions of the library that stand for a failure of the backend
BackendErrors == {"NotConnected", "RejectedByBackend", "BackendError"}

\* C18: a facade or lock call that fails for another reason than the
\* validation of its arguments raises NotConnected, RejectedByBackend or
\* BackendError, on either backend; start_event_listener() and
\* handle_events() included.
C18_FailuresAreBackendErrors ==
    /\ result.err \in {"", "SdlTypeError"} \cup BackendErrors
    /\ \A h \in Handles : lock_result[h].err \in {""} \cup BackendErrors

\* what get(ns, keys) returns to its caller
GetReturns(ns, keys) == SortedItems(BackendGet(ns, keys))

\* C19: get(ns, keys(m)) right after set(ns, m) returns exactly m, and the
\* keys stored before that are not in m keep their values.
C19_GetAfterSet ==
    [][result'.op = "set" /\ result'.err = "" =>
          \A ns \in NS, data_map \in UNION {[S -> Values] : S \in SUBSET Keys \ {{}}} :
             set(ns, data_map) =>
                /\ GetReturns(ns, DOMAIN data_map)' = SortedItems(data_map)
                /\ \A k \in Keys \ DOMAIN data_map :
                      GetReturns(ns, {k})' = GetReturns(ns, {k})]_vars

\* a set() that has left a key stored before it in place
C19_Witness ==
    /\ result.op = "set"
    /\ \E ns \in NS, k \in Keys, j \in Keys :
          /\ k # j
          /\ GetReturns(ns, {k, j}) = SortedItems(k :> "v1" @@ j :> "v2")

\* the keys stored under ns with their values, as the backend holds them
Stored(ns) ==
    IF Fake THEN db
    ELSE LET ks == server[getClient(ns)]
         IN  [k \in {k \in Keys : add_key_ns_prefix(ns, k) \in DOMAIN ks} |->
                 ks[add_key_ns_prefix(ns, k)]]

\* items holds exactly the keys of `wanted` that are stored under ns, each
\* with its value, in ascending order of the keys
ItemsOfStored(items, ns, wanted) ==
    /\ \A i \in DOMAIN items :
          /\ items[i][1] \in wanted \cap DOMAIN Stored(ns)
          /\ items[i][2] = Stored(ns)[items[i][1]]
    /\ \A k \in wanted \cap DOMAIN Stored(ns) :
          \E i \in DOMAIN items : items[i][1] = k
    /\ \A i \in DOMAIN items, j \in DOMAIN items :
          i < j => StrLess(items[i][1], items[j][1])

\* the keys a pattern of KeyPatterns matches
Matching(key_pattern) == IF key_pattern = <<"*">> THEN Keys ELSE {key_pattern}

\* C20: get(ns, keys) and find_and_get(ns, pattern) return exactly the
\* requested, or matching, keys that are stored, each with its value, in
\* ascending order of the keys; a key that is not stored is left out.
C20_GetSortedAndExact ==
    [][result'.op \in {"get", "find_and_get"} =>
          /\ \A ns \in NS, ks \in SUBSET Keys \ {{}} :
                get(ns, ks) => ItemsOfStored(returned', ns, ks)
          /\ \A ns \in NS, key_pattern \in KeyPatterns :
                find_and_get(ns, key_pattern) =>
                   ItemsOfStored(returned', ns, Matching(key_pattern))]_vars

C20_Witness ==
    /\ result.op \in {"get", "find_and_get"}
    /\ Len(returned) = 2

\* C21: a keys argument that is one string k stands for the one key k:
\* get(ns, k) returns {k: value} when k is stored, and after remove(ns, k)
\* the key k is not stored any more and every other key is as it was.
C21_StrKeyIsOneKey ==
    [][\A ns \in EventNS, k \in StrKeys :
          /\ (/\ result'.op = "get"
              /\ IsStored(ns, k)
              /\ get_str(ns, k)) =>
                returned' = SortedItems(BackendGet(ns, {k}))
          /\ (result'.op = "remove" /\ remove_str(ns, k)) =>
                /\ ~IsStored(ns, k)'
                /\ \A j \in StrKeys \ {k} :
                      BackendGet(ns, {j})' = BackendGet(ns, {j})]_vars

\* C22: remove_and_publish(ns, channels_and_events, keys) publishes only if
\* one of the keys was stored and has been removed; when none of the keys
\* is stored nothing is published.
C22_RemoveAndPublishOnRemovalOnly ==
    [][result'.op = "remove_and_publish" /\ result'.err = "" =>
          \A ns \in EventNS, ce \in ChannelsAndEventsInputs,
             ks \in SUBSET EventKeys \ {{}} :
             (/\ \A k \in ks : ~IsStored(ns, k)
              /\ remove_and_publish(ns, ce, ks)) =>
                \A c \in Channels : Queued(ns, c)' = Queued(ns, c)]_vars

\* C23: a callback subscribed to a channel under one namespace is never
\* called for the events published to the channel of that name under
\* another namespace, on either backend.
C23_ChannelsNamespaceScoped ==
    \A i \in DOMAIN delivered : delivered[i][2] # <<EventOf(OtherNS)>>

\* C24: a group behaves as a set: add_member is the union with the members
\* given, remove_member the difference, remove_group leaves the empty set;
\* get_members returns the set, group_size its cardinality and is_member
\* its membership test; a group never created reads as the empty set.
C24_GroupIsASet ==
    /\ \A ns \in NS, group \in Groups : BackendGetMembers(ns, group) = {}
    /\ [][\A ns \in NS, group \in Groups :
            LET before == BackendGetMembers(ns, group)
                after == BackendGetMembers(ns, group)'
            IN  /\ \A members \in MemberSets :
                      /\ (/\ result'.op = "add_member"
                          /\ add_member(ns, group, members)) =>
                            after = before \cup members
                      /\ (/\ result'.op = "remove_member"
                          /\ remove_member(ns, group, members)) =>
                            after = before \ members
                /\ (result'.op = "remove_group" /\ remove_group(ns, group)) =>
                      after = {}
                /\ (result'.op = "get_members" /\ get_members(ns, group)) =>
                      returned' = before /\ after = before
                /\ (result'.op = "group_size" /\ group_size(ns, group)) =>
                      returned' = Cardinality(before) /\ after = before
                /\ \A member \in Values :
                      (result'.op = "is_member" /\ is_member(ns, group, member)) =>
                         returned' = (member \in before) /\ after = before]_vars

\* a group of two members, added one after the other, has been counted
C24_Witness ==
    /\ result.op = "group_size"
    /\ returned = 2

\* C25: add_member and remove_member called with one bytes member m add,
\* respectively remove, the one member m: after add_member m is a member
\* and the group has grown by at most one; after remove_member m is not a
\* member.
C25_BytesMemberIsOneMember ==
    [][\A ns \in NS, group \in Groups, m \in Values :
          /\ (result'.op = "add_member" /\ add_member_bytes(ns, group, m)) =>
                /\ result'.err = ""
                /\ m \in BackendGetMembers(ns, group)'
                /\ Cardinality(BackendGetMembers(ns, group)')
                      <= Cardinality(BackendGetMembers(ns, group)) + 1
          /\ (result'.op = "remove_member"
              /\ remove_member_bytes(ns, group, m)) =>
                /\ result'.err = ""
                /\ m \notin BackendGetMembers(ns, group)']_vars

\* the documented glob match of a key against a search pattern: '?' is any
\* one character, '*' any run of characters, '[...]' one of the characters
\* or ranges listed, '[^...]' one character not listed, and a backslash
\* makes the character after it literal
RECURSIVE GlobMatch(_, _)
GlobMatch(pattern, key) ==
    IF pattern = <<>> THEN key = <<>>
    ELSE IF Head(pattern) = "*"
         THEN \/ GlobMatch(Tail(pattern), key)
              \/ key # <<>> /\ GlobMatch(pattern, Tail(key))
    ELSE IF key = <<>> THEN FALSE
    ELSE IF Head(pattern) = "?" THEN GlobMatch(Tail(pattern), Tail(key))
    ELSE IF Head(pattern) = "\\" /\ Len(pattern) >= 2
         THEN pattern[2] = Head(key)
              /\ GlobMatch(SubSeq(pattern, 3, Len(pattern)), Tail(key))
    ELSE IF Head(pattern) = "[" /\ IndexFrom(pattern, "]", 2) <= Len(pattern)
         THEN LET j == IndexFrom(pattern, "]", 2)
                  negated == pattern[2] = "^"
                  listed == SubSeq(pattern, IF negated THEN 3 ELSE 2, j - 1)
              IN  /\ InClass(listed, Head(key)) # negated
                  /\ GlobMatch(SubSeq(pattern, j + 1, Len(pattern)), Tail(key))
    ELSE Head(pattern) = Head(key) /\ GlobMatch(Tail(pattern), Tail(key))

\* C26: find_keys(ns, pattern) returns exactly the keys stored under ns
\* that the pattern matches as a glob pattern ('?', '*', '[abc]', '[a-z]',
\* '[^abc]', backslash escape); the in-memory backend selects the same keys
\* as that matcher.
C26_FindKeysIsGlobMatch ==
    [][result'.op = "find_keys" =>
          \A ns \in EventNS, key_pattern \in FindPatterns :
             find_keys(ns, key_pattern) =>
                returned' = {k \in FindStoredKeys :
                                IsStored(ns, k) /\ GlobMatch(key_pattern, k)}]_vars

\* crc32(namespace) mod n, counting the n endpoints from 1
EndpointOf(ns) == HashTable[ns][Len(clients)]

\* the step leaves every endpoint but that of ns as it was: keys, groups,
\* subscriptions and undelivered messages
OnlyEndpointOf(ns) ==
    \A j \in DOMAIN server :
       j # EndpointOf(ns) => server'[j] = server[j] /\ clients'[j] = clients[j]

\* the step is a call under ns that writes, publishes or changes
\* subscriptions
WritesUnder(ns) ==
    \/ /\ result'.op = "set"
       /\ \E data_map \in [EventKeys -> RouteValues] : set(ns, data_map)
    \/ result'.op = "remove" /\ remove(ns, EventKeys)
    \/ /\ result'.op = "add_member"
       /\ \E group \in Groups : add_member(ns, group, RouteValues)
    \/ /\ result'.op = "set_and_publish"
       /\ \E channel \in RouteChannels, data_map \in [EventKeys -> RouteValues] :
             set_and_publish(ns, << <<channel, [str |-> EventOf(ns)]>> >>, data_map)
    \/ /\ result'.op = "subscribe_channel"
       /\ \E cb \in Callbacks : subscribe_channel(ns, cb, RouteChannels)
    \/ result'.op = "unsubscribe_channel" /\ unsubscribe_channel(ns, RouteChannels)

\* C27: on the Redis backend with n >= 1 endpoints every operation for a
\* namespace works on endpoint crc32(namespace) mod n and on no other: the
\* writes and the subscriptions change that endpoint only, the reads return
\* what it holds, a lock handle is bound to it, and an event published
\* under the namespace reaches the connection where the subscriptions of
\* the namespace are registered.
C27_NamespaceEndpoint ==
    [][~Fake =>
        /\ \A ns \in NS :
              LET e == EndpointOf(ns)
                  k == add_key_ns_prefix(ns, <<"k">>)
                  g == add_key_ns_prefix(ns, <<"g">>)
                  c == add_key_ns_prefix(ns, <<"c">>)
              IN  /\ WritesUnder(ns) => OnlyEndpointOf(ns)
                  /\ (/\ result'.op \in {"set", "set_and_publish"}
                      /\ result'.err = ""
                      /\ WritesUnder(ns)) => k \in DOMAIN server'[e]
                  /\ (result'.op = "add_member" /\ WritesUnder(ns)) =>
                        server'[e][g] = RouteValues
                  /\ (result'.op = "subscribe_channel" /\ WritesUnder(ns)) =>
                        c \in ServerChannels(clients'[e])
                  /\ (/\ result'.op = "set_and_publish"
                      /\ result'.err = ""
                      /\ WritesUnder(ns)
                      /\ c \in ServerChannels(clients[e])) =>
                        /\ Len(clients'[e].inbox) = Len(clients[e].inbox) + 1
                        /\ clients'[e].inbox[Len(clients'[e].inbox)].channel = c
                  /\ (result'.op = "get" /\ get(ns, EventKeys)) =>
                        (returned' # <<>>) = (k \in DOMAIN server[e])
                  /\ (/\ result'.op = "get_members"
                      /\ \E group \in Groups : get_members(ns, group)) =>
                        returned' = SMEMBERS(server[e], g)
        /\ \A h \in Handles :
              lock_handle'[h].created =>
                 lock_handle'[h].redis = EndpointOf(LockNS)]_vars

\* with two endpoints, the two namespaces have written to different
\* endpoints, an event of the second endpoint's namespace waits on the
\* connection of that endpoint and a lock handle is bound to it
C27_Witness ==
    /\ ~Fake
    /\ Len(clients) = 2
    /\ EndpointOf(<<"a">>) = 2 /\ EndpointOf(<<"d">>) = 1
    /\ server[1] # EmptyDict /\ server[2] # EmptyDict
    /\ clients[2].inbox # <<>>
    /\ lock_handle[RouteHandle].created
    /\ lock_handle[RouteHandle].redis = 2

\* list `done` is list `given` completed to the length n by repeating the
\* last entry of `given`
CompletedTo(done, given, n) ==
    /\ Len(done) = n
    /\ \A i \in DOMAIN given : done[i] = given[i]
    /\ \A i \in DOMAIN done : i > Len(given) => done[i] = given[Len(given)]

\* C28, as stated: whenever the address list is longer than a non-empty
\* port list, the completed port list has the length of the address list,
\* every added entry equals the last configured port, and the address list
\* and the configured entries are unchanged, in plain and in sentinel
\* configurations alike.
C28_PortsCompletedAlways ==
    [][result'.op = "_read_configuration" =>
          LET addrs == result'.args[1]
              ports == result'.args[2]
          IN  (Len(addrs) > Len(ports) /\ Len(ports) > 0) =>
                 /\ returned'.addrs = addrs
                 /\ CompletedTo(returned'.ports, ports, Len(addrs))]_vars

\* C28, amended: in a plain configuration (no sentinel port) a non-empty
\* port list shorter than the address list is completed to its length by
\* repeating the last configured port; in a sentinel configuration it is
\* the sentinel port list, and a non-empty master name list, that are
\* completed in that way, and the port list is left as configured.  The
\* address list and the configured entries never change, and a list that
\* is not shorter than the address list is left as it is.
C28_ListsCompleted ==
    [][result'.op = "_read_configuration" =>
          LET addrs == result'.args[1]
              ports == result'.args[2]
              sentinel_ports == result'.args[3]
              sentinel_names == result'.args[4]
              n == Len(addrs)
              done == returned'
              short(l) == n > Len(l) /\ Len(l) > 0
          IN  /\ done.addrs = addrs
              /\ IF sentinel_ports = <<>>
                 THEN /\ IF short(ports) THEN CompletedTo(done.ports, ports, n)
                         ELSE done.ports = ports
                      /\ done.sentinel_ports = <<>>
                      /\ done.sentinel_names = sentinel_names
                      /\ short(ports) =>
                            \A i \in 1..n : create_redis_clients(done)[i].port # ""
                 ELSE /\ done.ports = ports
                      /\ IF short(sentinel_ports)
                         THEN CompletedTo(done.sentinel_ports, sentinel_ports, n)
                         ELSE done.sentinel_ports = sentinel_ports
                      /\ IF short(sentinel_names)
                         THEN CompletedTo(done.sentinel_names, sentinel_names, n)
                         ELSE done.sentinel_names = sentinel_names
                      /\ \A i \in 1..n : create_redis_clients(done)[i].sport # ""]_vars

\* a plain and a sentinel configuration with three addresses and two ports
\* of different values have been completed
C28_Witness ==
    /\ result.op = "_read_configuration"
    /\ Len(result.args[1]) = 3
    /\ \/ /\ result.args[3] = <<>>
          /\ result.args[2] = <<"p1", "p2">>
          /\ returned.ports = <<"p1", "p2", "p2">>
       \/ /\ result.args[3] = <<"s1", "s2">>
          /\ result.args[2] = <<"p1">>
          /\ returned.sentinel_ports = <<"s1", "s2", "s2">>
          /\ returned.ports = <<"p1">>

\* the lock is free for an attempt of handle h
FreeFor(h) == IF Fake THEN ~lock_handle[h].locked ELSE lock_key.token = 0

\* a step in which acquire() on handle h makes an attempt
AttemptBy(h) ==
    \/ \E retries \in 0..MaxRetries : lock_acquire(h, retries)
    \/ lock_acquire_retry(h)

\* C29: every acquire(retry_interval, retry_timeout) call returns: true at
\* the first attempt that finds the lock free, false otherwise, on the
\* Redis backend at the last attempt the timeout allows and on the fake
\* backend at the only attempt it makes; a call that has begun always
\* comes to its end, whether or not the lock is ever released.
C29_AcquireTerminates ==
    /\ [][\A h \in Handles :
             AttemptBy(h) =>
                IF FreeFor(h)
                THEN AcquireReturns(h) /\ lock_returned'[h] = [bool |-> TRUE]
                ELSE AcquireReturns(h) =>
                        /\ lock_returned'[h] = [bool |-> FALSE]
                        /\ \/ Fake
                           \/ lock_acquire(h, 0)
                           \/ lock_acquire_retry(h) /\ lock_handle[h].retries = 0]_vars
    /\ \A h \in Handles :
          (lock_handle[h].acquiring # 0) ~> (lock_handle[h].acquiring = 0)

\* on the Redis backend one handle holds the lock and the acquire() of the
\* other, which found it taken, waits for its last retry
C29_Witness ==
    \E h1 \in Handles, h2 \in Handles :
       /\ ~Fake
       /\ Holds(h1)
       /\ lock_handle[h2].acquiring # 0
       /\ lock_handle[h2].retries = 0

\* C30: a lock that was acquired and is then neither refreshed nor released
\* lapses when its expiration has passed: the time that ends the lock's
\* time to live leaves no holder, the handle of the former holder reports
\* that it does not hold the lock, an acquire() on another handle then
\* succeeds, and a holder that is left alone does not stay holder for ever.
C30_LockLapses ==
    /\ [][\A h \in Handles :
             /\ (Holds(h) /\ ~Holds(h)') =>
                   lock_status_to_string(h)' # "locked"
             /\ \A h2 \in Handles \ {h} :
                   (/\ lock_handle[h].token # 0
                    /\ lock_status_to_string(h) = "unlocked"
                    /\ AcquireReturns(h2)) =>
                      lock_returned'[h2] = [bool |-> TRUE]]_vars
    /\ \A h \in Handles :
          Holds(h) ~> (lock_status_to_string(h) # "locked")

\* C31: on the in-memory backend shared by threads, set_if and remove_if are
\* indivisible: a thread that has compared and is about to write still finds
\* the value it compared with (no set, remove or other compare-and-set took
\* effect in between), and no two threads are both past the comparison of
\* set_if calls on the same key with the same old value and new values other
\* than the old one (both calls would return True).
C31_CompareAndSetIndivisible ==
    /\ \A t \in Threads :
          thread_call[t].line \in {75, 114} =>
             StoredIs(ThreadNS, thread_call[t].key, thread_call[t].old_data)
    /\ \A t \in Threads, u \in Threads :
          (/\ t # u
           /\ thread_call[t].line = 75 /\ thread_call[u].line = 75
           /\ thread_call[t].key = thread_call[u].key
           /\ thread_call[t].old_data = thread_call[u].old_data)
          => \/ thread_call[t].new_data = thread_call[t].old_data
             \/ thread_call[u].new_data = thread_call[u].old_data

\* C32: the existence check and the write of set_if_not_exists are one
\* operation: a call returns True only at a step that finds the key absent
\* and leaves it stored with the value of the call, so that of the calls
\* that overlap on an absent key one returns True and its value is stored.
C32_SetIfNotExistsIndivisible ==
    [][\A t \in Threads, key \in ThreadKeys, data \in Values :
          (/\ thread_call'[t] # thread_call[t]
           /\ thread_call'[t] =
                 ThreadCall("set_if_not_exists", 0, key, "", data, "True"))
          => /\ ~IsStored(ThreadNS, key)
             /\ StoredIs(ThreadNS, key, data)']_vars

\* C33: the data mutation of a write+publish call and the queuing of its
\* notifications are one step for other callers: in every state, where
\* another thread or client can read what is stored, no call has mutated
\* the data and still holds a notification that is not queued (pending is
\* what a call that has written has yet to put on the queue).
C33_WriteAndQueueAtomic == pending = <<>>

\* `channel` is subscribed under ns
Subscribed(ns, channel) ==
    IF Fake THEN channel \in DOMAIN channel_cbs
    ELSE add_key_ns_prefix(ns, channel)
            \in ServerChannels(clients[getClientConn(ns)])

\* event number n, published to `channel` under ns, waits for delivery
WaitingEvent(ns, channel, n) ==
    IF Fake
    THEN LET q == queue \o pending
         IN  \E i \in DOMAIN q : q[i] = <<channel, <<Event(n)>> >>
    ELSE LET inbox == clients[getClientConn(ns)].inbox
         IN  \E i \in DOMAIN inbox :
                /\ inbox[i].type = "message"
                /\ inbox[i].channel = add_key_ns_prefix(ns, channel)
                /\ inbox[i].data = Event(n)

DeliveredEvent(channel, n) ==
    \E i \in DOMAIN delivered : delivered[i] = <<channel, <<Event(n)>> >>

\* C34: in managed-loop mode, with start_event_listener() called and the
\* channel subscribed (in either order), every event published to the
\* channel comes to be delivered to the callback, and no handle_events()
\* call is needed for it.
C34_ManagedLoopDelivers ==
    \A ns \in EventNS, channel \in Channels, n \in 1..MaxEvents :
       (started /\ Subscribed(ns, channel) /\ WaitingEvent(ns, channel, n))
          ~> DeliveredEvent(channel, n)

\* an event delivered by the event loop, never polled for
C34_Witness ==
    /\ started
    /\ ~polled
    /\ result.op = "set_and_publish"
    /\ \E channel \in Channels : DeliveredEvent(channel, MaxEvents)

\* C35: every write+publish call on the in-memory backend comes to return:
\* a call that still has notifications to put on the queue comes to have
\* put them all.
C35_PublishReturns == Fake => (pending # <<>> ~> pending = <<>>)

Notifications(i) ==
    LET inbox == clients[i].inbox
        F[n \in 0..Len(inbox)] ==
           IF n = 0 THEN <<>>
           ELSE IF inbox[n].type = "message"
                THEN Append(F[n - 1],
                            <<strip_ns_from_bin_key(<<>>, inbox[n].channel),
                              Split(inbox[n].data, event_separator)>>)
                ELSE F[n - 1]
    IN  F[Len(inbox)]

\* the notifications that wait for this instance
PendingNotifications ==
    IF Fake THEN queue
    ELSE LET F[i \in 0..Len(clients)] ==
                IF i = 0 THEN <<>> ELSE F[i - 1] \o Notifications(i)
         IN  F[Len(clients)]

\* the channel of a notification has a callback registered
Registered(channel) ==
    IF Fake THEN channel \in DOMAIN channel_cbs
    ELSE \E i \in DOMAIN clients :
            \E c \in DOMAIN clients[i].channels :
               strip_ns_from_bin_key(<<>>, c) = channel

\* C37: in manual-poll mode handle_events() does not wait: with no
\* notification pending it returns None and changes nothing; with
\* notifications pending it takes the oldest one, calls the callback
\* registered for its channel once and returns the (channel, events) pair.
C37_HandleEventsPollsOne ==
    [][(result'.op = "handle_events" /\ ~ManagedMode /\ handle_events) =>
          /\ result'.err = ""
          /\ IF PendingNotifications = <<>>
             THEN /\ returned' = None
                  /\ UNCHANGED <<queue, clients, delivered, db, server,
                                 channel_cbs, pending>>
             ELSE LET oldest == Head(PendingNotifications)
                  IN  /\ returned' # None
                      /\ returned' = oldest
                      /\ PendingNotifications' = Tail(PendingNotifications)
                      /\ delivered' = IF Registered(oldest[1])
                                      THEN Append(delivered, oldest)
                                      ELSE delivered]_vars

\* the lock is free of handle h: h does not hold it, and it is free or
\* held by a handle that acquired it itself
ReleasedBy(h) ==
    /\ ~Holds(h)
    /\ IF Fake THEN ~lock_handle[h].locked
       ELSE /\ lock_handle[h].token = 0
            /\ \/ lock_key = NoKey
               \/ \E g \in Handles \ {h} : lock_key.token = lock_handle[g].token

\* C38: a with statement on a lock handle runs its body only if acquire()
\* returned True, the handle holding the lock at entry; if acquire() returns
\* False the statement is left by an error with the lock state as acquire()
\* left it and without a release() call; and when the body has ended the
\* handle no longer holds the lock, which is then free to be acquired.
C38_WithAcquiresAndReleases ==
    [][\A h \in Handles :
          /\ (with_block[h] # "body" /\ with_block'[h] = "body") =>
                /\ lock_result'[h] = LockCall("acquire", "")
                /\ lock_returned'[h] = [bool |-> TRUE]
                /\ Holds(h)'
          /\ (with_block[h] # "rejected" /\ with_block'[h] = "rejected") =>
                /\ lock_result'[h] = LockCall("acquire", "")
                /\ lock_returned'[h] = [bool |-> FALSE]
                /\ lock_key' = lock_key
          /\ (with_block[h] = "body" /\ with_block'[h] = "out") =>
                /\ lock_result'[h].op = "release"
                /\ ReleasedBy(h)']_vars

\* the with statement of one handle has ended with a release() that raised
\* nothing, and another handle, rejected before, holds the lock in the body
\* of its own with statement
C38_Witness ==
    \E h \in Handles, g \in Handles :
       /\ h # g
       /\ with_block[h] = "out"
       /\ lock_result[h] = LockCall("release", "")
       /\ ReleasedBy(h)
       /\ with_block[g] = "body"
       /\ Holds(g)

\* C39: on the Redis backend, find_keys(ns, "*") reports the keys of the
\* namespace exactly as the caller wrote them -- stripping the prefix from
\* the wire form "{ns},k" yields k -- also when ns or k has a comma or a
\* brace in it
C39_WireKeyRoundTrip ==
    [][\A ns \in WireNS :
          find_keys(ns, <<"*">>) =>
             returned' = {k \in WireKeys : IsStored(ns, k)}]_vars

\* C40: the list _prepare_channels returns is a sequence of pairs (channel
\* with the namespace prefix, events joined with "___"), one pair per channel
\* of the map and in the order of the map, its length is even and the pair
\* count is the number of channels; also for a channel with no events
C40_PreparedPairs ==
    result.op = "_prepare_channels" =>
       LET ns == result.args[1]
           channels_and_events == result.args[2]
           prepared == returned.prepared
       IN  /\ Len(prepared) % 2 = 0
           /\ Len(prepared) = 2 * Len(channels_and_events)
           /\ returned.pairs_cnt = Len(channels_and_events)
           /\ \A n \in DOMAIN channels_and_events :
                 LET channel == channels_and_events[n][1]
                     events == channels_and_events[n][2]
                 IN  /\ prepared[2 * n - 1] = add_key_ns_prefix(ns, channel)
                     /\ prepared[2 * n] =
                           IF events = <<>> THEN <<>> ELSE JoinEvents(events)
====
